---- MODULE Spec2Model ----
(***************************************************************************)
(* LeverVM (src/src/main.rs): a stack / register / sparse-memory virtual   *)
(* machine.  main() builds a VM, loads program.vm with the two-pass        *)
(* loader load_program_from_file, and executes it with run(), which calls  *)
(* execute_instruction until HLT or until pc leaves the program.           *)
(*                                                                         *)
(* Source text is modelled as it is: a sequence of lines, each a string,   *)
(* trimmed, split and parsed the way the loader does it.  Values are i32;  *)
(* arithmetic is written so that no intermediate value leaves the i32      *)
(* range, and an overflowing +, -, * either panics (overflow checks on,    *)
(* the dev profile) or wraps modulo 2^32 (checks off, the release          *)
(* profile).                                                               *)
(***************************************************************************)
EXTENDS Integers, Sequences, FiniteSets, TLC

VARIABLES
    stack,            \* VM.stack: Vec<i32>, top is the last element
    memory,           \* VM.memory: HashMap<usize, i32>
    registers,        \* VM.registers: [i32; 8], indices 0..7
    program,          \* VM.program: Vec<(Opcode, Option<i32>, Option<i32>)>
    pc,               \* VM.pc
    running,          \* VM.running
    labels,           \* VM.labels: HashMap<String, usize>
    source,           \* the lines of program.vm
    phase,            \* position of main(): "new", "loaded", "running", "done", "panicked"
    output,           \* what was written to standard output, in order
    overflow_checks,  \* TRUE: +,-,* panic on overflow; FALSE: they wrap
    trace             \* history: the instructions executed so far, each with the
                      \* state it was executed in

vars == <<stack, memory, registers, program, pc, running, labels,
          source, phase, output, overflow_checks, trace>>

(***************************************************************************)
(* Program constants.                                                      *)
(***************************************************************************)
MAX_MEMORY_SIZE == 1048576
REGISTER_AMOUNT == 8
I32_MAX == 2147483647
I32_MIN == (-2147483647) - 1

(***************************************************************************)
(* Option<i32>: None is the empty tuple, Some(v) is <<v>>.                 *)
(***************************************************************************)
None == <<>>
Some(v) == <<v>>
is_some(o) == o # <<>>
unwrap_or(o, d) == IF o = <<>> THEN d ELSE o[1]

(***************************************************************************)
(* i32 arithmetic.  Each operation yields [v, ovf]: the wrapped result and *)
(* whether the mathematical result left the i32 range.                     *)
(***************************************************************************)
add_i32(a, b) ==
    IF b > 0 /\ a > I32_MAX - b
        THEN [v |-> ((a - I32_MAX) - 1) + ((b - I32_MAX) - 1), ovf |-> TRUE]
    ELSE IF b < 0 /\ a < I32_MIN - b
        THEN [v |-> ((a + I32_MAX) + 1) + ((b + I32_MAX) + 1), ovf |-> TRUE]
    ELSE [v |-> a + b, ovf |-> FALSE]

sub_i32(a, b) ==
    IF b < 0 /\ a > I32_MAX + b
        THEN [v |-> ((a - I32_MAX) - 1) - ((b + I32_MAX) + 1), ovf |-> TRUE]
    ELSE IF b > 0 /\ a < I32_MIN + b
        THEN [v |-> ((a + I32_MAX) + 1) - ((b - I32_MAX) - 1), ovf |-> TRUE]
    ELSE [v |-> a - b, ovf |-> FALSE]

\* the low 32 bits of a * b as an i32, from 16-bit limbs
wrapping_mul(a, b) ==
    LET ah == a \div 65536
        al == a % 65536
        bh == b \div 65536
        bl == b % 65536
        c  == bl \div 256
        d  == bl % 256
        t1 == al * c
        t2 == al * d
        low == (t1 % 256) * 256 + (t2 % 65536)
        lo16 == low % 65536
        carry == (t1 \div 256) + (t2 \div 65536) + (low \div 65536)
        mid == ((ah * bl) % 65536) + ((al * bh) % 65536)
        hi16 == ((mid % 65536) + (carry % 65536)) % 65536
    IN  IF hi16 >= 32768 THEN (hi16 - 65536) * 65536 + lo16
        ELSE hi16 * 65536 + lo16

mul_overflows(a, b) ==
    IF a = 0 \/ b = 0 THEN FALSE
    ELSE IF (a > 0) = (b > 0)
        \* product positive: overflow iff |a| * |b| > I32_MAX
        THEN IF a = I32_MIN \/ b = I32_MIN THEN TRUE
             ELSE (IF a > 0 THEN a ELSE 0 - a) > I32_MAX \div (IF b > 0 THEN b ELSE 0 - b)
        \* product negative: overflow iff n * p < I32_MIN, n the negative factor
        ELSE LET n == IF a < 0 THEN a ELSE b
                 p == IF a < 0 THEN b ELSE a
             IN  n < (I32_MIN + (p - 1)) \div p

mul_i32(a, b) == [v |-> wrapping_mul(a, b), ovf |-> mul_overflows(a, b)]

\* a / b for b > 0, rounded toward zero
trunc_div_pos(a, b) ==
    IF a >= 0 \/ a % b = 0 THEN a \div b ELSE (a \div b) + 1

\* Rust's a / b (rounds toward zero); the caller excludes b = 0 and I32_MIN / -1
div_i32(a, b) ==
    IF b > 0 THEN trunc_div_pos(a, b)
    ELSE IF b = I32_MIN THEN (IF a = I32_MIN THEN 1 ELSE 0)
    ELSE 0 - trunc_div_pos(a, 0 - b)

\* Rust's a % b (sign of the dividend)
rem_i32(a, b) == a - b * div_i32(a, b)

\* a / b and a % b panic on a zero divisor and on I32_MIN / -1, in every build
div_panics(a, b) == b = 0 \/ (a = I32_MIN /\ b = -1)

(***************************************************************************)
(* `x as usize` of an i32 x: a negative x becomes a value of at least 2^63,*)
(* which is above every length and every stored key.                       *)
(***************************************************************************)
usize_lt(x, n) == x >= 0 /\ x < n

(***************************************************************************)
(* Strings: str::trim, starts_with, ends_with, split_whitespace,           *)
(* to_uppercase, i32::to_string and str::parse::<i32>.                     *)
(***************************************************************************)
Ch(s, i) == SubSeq(s, i, i)

\* char::is_whitespace, the Unicode White_Space property. A string of this
\* module holds a character below U+0100 or one whose low byte is 0x80 or more,
\* and the White_Space characters among those are, in the order written below:
\* tab, line feed, vertical tab (U+000B), form feed, carriage return, space, next
\* line (U+0085), no-break space (U+00A0) and ogham space mark (U+1680). The
\* others (U+2000..U+200A, U+2028, U+2029, U+202F, U+205F, U+3000) are no
\* character of a string here.
is_whitespace(c) == c \in {"\t", "\n", "", "\f", "\r", " ", "", " ", " "}

RECURSIVE trim_start(_)
trim_start(s) ==
    IF Len(s) > 0 /\ is_whitespace(Ch(s, 1)) THEN trim_start(SubSeq(s, 2, Len(s))) ELSE s

RECURSIVE trim_end(_)
trim_end(s) ==
    IF Len(s) > 0 /\ is_whitespace(Ch(s, Len(s))) THEN trim_end(SubSeq(s, 1, Len(s) - 1)) ELSE s

trim(s) == trim_end(trim_start(s))

starts_with(s, c) == Len(s) > 0 /\ Ch(s, 1) = c

ends_with(s, c) == Len(s) > 0 /\ Ch(s, Len(s)) = c

RECURSIVE split_from(_, _, _)
split_from(s, i, cur) ==
    IF i > Len(s) THEN (IF cur = "" THEN <<>> ELSE <<cur>>)
    ELSE IF is_whitespace(Ch(s, i))
        THEN (IF cur = "" THEN split_from(s, i + 1, "")
              ELSE <<cur>> \o split_from(s, i + 1, ""))
    ELSE split_from(s, i + 1, cur \o Ch(s, i))

split_whitespace(s) == split_from(s, 1, "")

\* str::to_uppercase, the Unicode upper case of each character. LowerCase holds
\* the characters whose upper case is one other character, UpperCase holds that
\* character at the same position, and SpecialCasing gives the characters whose
\* upper case is two characters. Both hold only what a string of this module can
\* hold (a character below U+0100 or one whose low byte is 0x80 or more).
LowerCase ==
    "abcdefghijklmnopqrstuvwxyz"
    \o "µàáâãäåæçèéêëìíîïðñòóôõöøùúûüýþƃƅƈƌƒƕƙơƣ"
    \o "ƥƨƭưƴƶƹƽƿǅǆǈǉǋǌǎǐǒǔǖǘǚǜǝǟǡǣǥǧǩǫǭǯǲǳǵǹǻǽǿ"
    \o "ʀʂʃʇʈʊʋʒʝʞάέήίαβγδεζηθικλμνξοπρςστυφχψωϊ"
    \o "ϋόύώϐϑϕϖϗϙϛϝϟϡϣϥϧϩϫϭϯϰϱϲϵϸϻҁҋҍҏґғҕҗҙқҝҟҡ"
    \o "ңҥҧҩҫҭүұҳҵҷҹһҽҿӂӄӆӈӊӌӎӏӑӓӕӗәӛӝӟӡӣӥӧөӫӭӯӱ"
    \o "ӳӵӷӹӻӽӿაბგდევზთიკლმნოპჟრსტუფქღყშჩცძწჭხჯჰ"
    \o "ჱჲჳჴჵჶჷჸჹჺჽჾჿᏸᏹᏺᏻᏼᏽᶎẁẃẅẇẉẋẍẏẑẓẕạảấầẩẫậắằ"
    \o "ẳẵặẹẻẽếềểễệỉịọỏốồổỗộớờởỡợụủứừửữựỳỵỷỹỻỽỿᾰ"
    \o "ᾱιῐῑῠῡῥↄⓐⓑⓒⓓⓔⓕⓖⓗⓘⓙⓚⓛⓜⓝⓞⓟⓠⓡⓢⓣⓤⓥⓦⓧⓨⓩⲁⲃⲅⲇⲉⲋ"
    \o "ⲍⲏⲑⲓⲕⲗⲙⲛⲝⲟⲡⲣⲥⲧⲩⲫⲭⲯⲱⲳⲵⲷⲹⲻⲽⲿⳁⳃⳅⳇⳉⳋⳍⳏⳑⳓⳕⳗⳙⳛ"
    \o "ⳝⳟⳡⳣⳬⳮⳳꚁꚃꚅꚇꚉꚋꚍꚏꚑꚓꚕꚗꚙꚛꞁꞃꞅꞇꞌꞑꞓꞔꞗꞙꞛꞝꞟꞡꞣꞥꞧꞩꞵ"
    \o "ꞷꞹꞻꞽꞿꟁꟃꟈꟊꟑꟗꟙꟶꮀꮁꮂꮃꮄꮅꮆꮇꮈꮉꮊꮋꮌꮍꮎꮏꮐꮑꮒꮓꮔꮕꮖꮗꮘꮙꮚ"
    \o "ꮛꮜꮝꮞꮟꮠꮡꮢꮣꮤꮥꮦꮧꮨꮩꮪꮫꮬꮭꮮꮯꮰꮱꮲꮳꮴꮵꮶꮷꮸꮹꮺꮻꮼꮽꮾꮿ"
    \o "ƛᲊꟍ꟏ꟓꟕꟛ"

UpperCase ==
    "ABCDEFGHIJKLMNOPQRSTUVWXYZ"
    \o "ΜÀÁÂÃÄÅÆÇÈÉÊËÌÍÎÏÐÑÒÓÔÕÖØÙÚÛÜÝÞƂƄƇƋƑǶƘƠƢ"
    \o "ƤƧƬƯƳƵƸƼǷǄǄǇǇǊǊǍǏǑǓǕǗǙǛƎǞǠǢǤǦǨǪǬǮǱǱǴǸǺǼǾ"
    \o "ƦꟅƩꞱƮƱƲƷꞲꞰΆΈΉΊΑΒΓΔΕΖΗΘΙΚΛΜΝΞΟΠΡΣΣΤΥΦΧΨΩΪ"
    \o "ΫΌΎΏΒΘΦΠϏϘϚϜϞϠϢϤϦϨϪϬϮΚΡϹΕϷϺҀҊҌҎҐҒҔҖҘҚҜҞҠ"
    \o "ҢҤҦҨҪҬҮҰҲҴҶҸҺҼҾӁӃӅӇӉӋӍӀӐӒӔӖӘӚӜӞӠӢӤӦӨӪӬӮӰ"
    \o "ӲӴӶӸӺӼӾᲐᲑᲒᲓᲔᲕᲖᲗᲘᲙᲚᲛᲜᲝᲞᲟᲠᲡᲢᲣᲤᲥᲦᲧᲨᲩᲪᲫᲬᲭᲮᲯᲰ"
    \o "ᲱᲲᲳᲴᲵᲶᲷᲸᲹᲺᲽᲾᲿᏰᏱᏲᏳᏴᏵꟆẀẂẄẆẈẊẌẎẐẒẔẠẢẤẦẨẪẬẮẰ"
    \o "ẲẴẶẸẺẼẾỀỂỄỆỈỊỌỎỐỒỔỖỘỚỜỞỠỢỤỦỨỪỬỮỰỲỴỶỸỺỼỾᾸ"
    \o "ᾹΙῘῙῨῩῬↃⒶⒷⒸⒹⒺⒻⒼⒽⒾⒿⓀⓁⓂⓃⓄⓅⓆⓇⓈⓉⓊⓋⓌⓍⓎⓏⲀⲂⲄⲆⲈⲊ"
    \o "ⲌⲎⲐⲒⲔⲖⲘⲚⲜⲞⲠⲢⲤⲦⲨⲪⲬⲮⲰⲲⲴⲶⲸⲺⲼⲾⳀⳂⳄⳆⳈⳊⳌⳎⳐⳒⳔⳖⳘⳚ"
    \o "ⳜⳞⳠⳢⳫⳭⳲꚀꚂꚄꚆꚈꚊꚌꚎꚐꚒꚔꚖꚘꚚꞀꞂꞄꞆꞋꞐꞒꟄꞖꞘꞚꞜꞞꞠꞢꞤꞦꞨꞴ"
    \o "ꞶꞸꞺꞼꞾꟀꟂꟇꟉꟐꟖꟘꟵᎰᎱᎲᎳᎴᎵᎶᎷᎸᎹᎺᎻᎼᎽᎾᎿᏀᏁᏂᏃᏄᏅᏆᏇᏈᏉᏊ"
    \o "ᏋᏌᏍᏎᏏᏐᏑᏒᏓᏔᏕᏖᏗᏘᏙᏚᏛᏜᏝᏞᏟᏠᏡᏢᏣᏤᏥᏦᏧᏨᏩᏪᏫᏬᏭᏮᏯ"
    \o "ꟜᲉꟌ꟎꟒꟔Ꟛ"

SpecialCasing ==
    ("ß" :> "SS")
    @@ ("ẚ" :> "Aʾ")
    @@ ("ᾲ" :> "ᾺΙ")
    @@ ("ᾳ" :> "ΑΙ")
    @@ ("ᾴ" :> "ΆΙ")
    @@ ("ᾼ" :> "ΑΙ")
    @@ ("ῂ" :> "ῊΙ")
    @@ ("ῃ" :> "ΗΙ")
    @@ ("ῄ" :> "ΉΙ")
    @@ ("ῌ" :> "ΗΙ")
    @@ ("ῲ" :> "ῺΙ")
    @@ ("ῳ" :> "ΩΙ")
    @@ ("ῴ" :> "ΏΙ")
    @@ ("ῼ" :> "ΩΙ")

to_uppercase_table ==
    [c \in {Ch(LowerCase, i) : i \in 1..Len(LowerCase)} |->
        Ch(UpperCase, CHOOSE i \in 1..Len(LowerCase) : Ch(LowerCase, i) = c)]

\* the characters whose upper case holds a character that no string here can
\* hold (y with diaeresis, U+00FF, whose upper case is U+0178, is the first)
UpperCaseNotHeld ==
    "ÿƀƚƞǰʉʌΐΰϳրցւփքօֆևᲀᲁᲂᲃᲄᲅᲆᲇᲈẖẗẘẙẛᾀᾁᾂᾃᾄᾅᾆᾇ"
    \o "ᾈᾉᾊᾋᾌᾍᾎᾏᾐᾑᾒᾓᾔᾕᾖᾗᾘᾙᾚᾛᾜᾝᾞᾟᾠᾡᾢᾣᾤᾥᾦᾧᾨᾩᾪᾫᾬᾭᾮᾯ"
    \o "ᾶᾷῆῇῒΐῖῗῢΰῤῦῧῶῷ"

to_uppercase_not_held == {Ch(UpperCaseNotHeld, i) : i \in 1..Len(UpperCaseNotHeld)}

\* u is the upper case of the character c. The upper case of a character of
\* UpperCaseNotHeld is no string that can be written here, so it is no u; a
\* character in none of the tables is its own upper case.
upper_char_is(c, u) ==
    IF c \in DOMAIN SpecialCasing THEN u = SpecialCasing[c]
    ELSE IF c \in DOMAIN to_uppercase_table THEN u = to_uppercase_table[c]
    ELSE IF c \in to_uppercase_not_held THEN FALSE
    ELSE u = c

\* s.to_uppercase().as_str() == m: m is the upper cases of the characters of s,
\* each of one or two characters, one after the other
RECURSIVE to_uppercase_is(_, _)
to_uppercase_is(s, m) ==
    IF s = "" THEN m = ""
    ELSE \E k \in 1..2 :
             /\ k <= Len(m)
             /\ upper_char_is(Ch(s, 1), SubSeq(m, 1, k))
             /\ to_uppercase_is(SubSeq(s, 2, Len(s)), SubSeq(m, k + 1, Len(m)))

DigitChars == "0123456789"

is_digit(c) == \E i \in 1..10 : Ch(DigitChars, i) = c

digit_value(c) == (CHOOSE i \in 1..10 : Ch(DigitChars, i) = c) - 1

\* the decimal digits of n >= 0
RECURSIVE nat_to_string(_)
nat_to_string(n) ==
    IF n < 10 THEN Ch(DigitChars, n + 1)
    ELSE nat_to_string(n \div 10) \o Ch(DigitChars, (n % 10) + 1)

\* the decimal digits of |n| for n < 0, without negating I32_MIN
RECURSIVE neg_to_string(_)
neg_to_string(n) ==
    LET r == n % 10
        d == IF r = 0 THEN 0 ELSE 10 - r
        q == IF r = 0 THEN n \div 10 ELSE (n \div 10) + 1
    IN  IF q = 0 THEN Ch(DigitChars, d + 1)
        ELSE neg_to_string(q) \o Ch(DigitChars, d + 1)

\* i32::to_string
to_string(n) == IF n >= 0 THEN nat_to_string(n) ELSE "-" \o neg_to_string(n)

\* digits of a non-negative literal, accumulated with checked arithmetic
RECURSIVE parse_pos(_, _, _)
parse_pos(s, i, acc) ==
    IF i > Len(s) THEN Some(acc)
    ELSE IF ~is_digit(Ch(s, i)) THEN None
    ELSE LET d == digit_value(Ch(s, i))
         IN  IF acc > (I32_MAX - d) \div 10 THEN None
             ELSE parse_pos(s, i + 1, acc * 10 + d)

\* digits of a negative literal, accumulated downwards with checked arithmetic
RECURSIVE parse_neg(_, _, _)
parse_neg(s, i, acc) ==
    IF i > Len(s) THEN Some(acc)
    ELSE IF ~is_digit(Ch(s, i)) THEN None
    ELSE LET d == digit_value(Ch(s, i))
         IN  IF acc < ((I32_MIN + d) + 9) \div 10 THEN None
             ELSE parse_neg(s, i + 1, acc * 10 - d)

\* str::parse::<i32>().ok(): optional sign, then at least one digit, in range
parse_i32(s) ==
    IF s = "" THEN None
    ELSE IF Ch(s, 1) = "-" THEN (IF Len(s) = 1 THEN None ELSE parse_neg(s, 2, 0))
    ELSE IF Ch(s, 1) = "+" THEN (IF Len(s) = 1 THEN None ELSE parse_pos(s, 2, 0))
    ELSE parse_pos(s, 1, 0)

(***************************************************************************)
(* HashMap: a function on the set of its keys.                             *)
(***************************************************************************)
EmptyMap == [k \in {} |-> 0]

contains_key(m, k) == k \in DOMAIN m

map_insert(m, k, v) == [x \in (DOMAIN m) \cup {k} |-> IF x = k THEN v ELSE m[x]]

(***************************************************************************)
(* The loader: VM::load_program_from_file.                                 *)
(***************************************************************************)
Opcodes ==
    {"ADD", "SUB", "MUL", "DIV", "MOD", "INC", "DEC", "PSH", "POP", "STR",
     "LOA", "DUP", "SWP", "SCL", "SET", "GET", "INP", "PRT", "PPT", "PRC",
     "DEB", "HLT", "NOP", "JMP", "JEZ", "JNZ", "JGZ", "JLZ", "EQU", "NEQ",
     "GTH", "LTH", "GTE", "LTE", "MCL", "TIM", "MOV", "COP"}

\* the match on opcode_str.to_uppercase(): Some(opcode) for the arm whose
\* literal it equals, or None for the `_` arm
parse_opcode(opcode_str) ==
    LET arms == {m \in Opcodes : to_uppercase_is(opcode_str, m)}
    IN  IF arms # {} THEN Some(CHOOSE m \in arms : TRUE) ELSE None

\* first pass: label name -> number of counted lines before the label line
RECURSIVE first_pass(_, _, _, _)
first_pass(lines, i, labs, current_position) ==
    IF i > Len(lines) THEN labs
    ELSE LET line == trim(lines[i])
         IN  IF line = "" \/ starts_with(line, "#")
                 THEN first_pass(lines, i + 1, labs, current_position)
             ELSE IF ends_with(line, ":")
                 THEN first_pass(lines, i + 1,
                                 map_insert(labs, trim(SubSeq(line, 1, Len(line) - 1)),
                                            current_position),
                                 current_position)
             ELSE first_pass(lines, i + 1, labs, current_position + 1)

\* parse_operand_1 looking names up for the five jump mnemonics only
parse_operand_1_jumps_only(parts, labs) ==
    IF Len(parts) >= 2
        THEN IF /\ parse_opcode(parts[1]) \in {<<"JMP">>, <<"JEZ">>, <<"JNZ">>, <<"JGZ">>, <<"JLZ">>}
                /\ contains_key(labs, parts[2])
                 THEN Some(labs[parts[2]])
             ELSE parse_i32(parts[2])
        ELSE None

\* the first operand: a label's index if the token is a label name, else the parsed integer
parse_operand_1(parts, labs) ==
    IF Len(parts) >= 2
        THEN IF contains_key(labs, parts[2]) THEN Some(labs[parts[2]])
             ELSE parse_i32(parts[2])
        ELSE None

\* the second operand: the parsed integer only
parse_operand_2(parts) ==
    IF Len(parts) >= 3 THEN parse_i32(parts[3]) ELSE None

\* second_pass giving up at the first line with an unknown mnemonic
RECURSIVE second_pass_aborts(_, _, _, _)
second_pass_aborts(lines, i, labs, prog) ==
    IF i > Len(lines) THEN prog
    ELSE LET line == trim(lines[i])
         IN  IF line = "" \/ starts_with(line, "#") \/ ends_with(line, ":")
                 THEN second_pass_aborts(lines, i + 1, labs, prog)
             ELSE LET parts == split_whitespace(line)
                      opcode == parse_opcode(parts[1])
                  IN  IF opcode = <<>> THEN prog
                      ELSE second_pass_aborts(lines, i + 1, labs,
                               Append(prog, [op |-> opcode[1],
                                             operand_1 |-> parse_operand_1(parts, labs),
                                             operand_2 |-> parse_operand_2(parts)]))

\* second_pass in a single-pass loader: a name resolves only if its label line
\* stands before the line that uses it
RECURSIVE second_pass_backward_only(_, _, _, _)
second_pass_backward_only(lines, i, labs, prog) ==
    IF i > Len(lines) THEN prog
    ELSE LET line == trim(lines[i])
         IN  IF line = "" \/ starts_with(line, "#") \/ ends_with(line, ":")
                 THEN second_pass_backward_only(lines, i + 1, labs, prog)
             ELSE LET parts == split_whitespace(line)
                      opcode == parse_opcode(parts[1])
                      seen == first_pass(SubSeq(lines, 1, i - 1), 1, EmptyMap, 0)
                  IN  IF opcode = <<>>
                          THEN second_pass_backward_only(lines, i + 1, labs, prog)
                      ELSE second_pass_backward_only(lines, i + 1, labs,
                               Append(prog, [op |-> opcode[1],
                                             operand_1 |-> parse_operand_1(parts, seen),
                                             operand_2 |-> parse_operand_2(parts)]))

\* second pass: the instructions of the lines with a known mnemonic, in order
RECURSIVE second_pass(_, _, _, _)
second_pass(lines, i, labs, prog) ==
    IF i > Len(lines) THEN prog
    ELSE LET line == trim(lines[i])
         IN  IF line = "" \/ starts_with(line, "#") \/ ends_with(line, ":")
                 THEN second_pass(lines, i + 1, labs, prog)
             ELSE LET parts == split_whitespace(line)
                      opcode == parse_opcode(parts[1])
                  IN  IF opcode = <<>>
                          THEN second_pass(lines, i + 1, labs, prog)
                      ELSE second_pass(lines, i + 1, labs,
                               Append(prog, [op |-> opcode[1],
                                             operand_1 |-> parse_operand_1(parts, labs),
                                             operand_2 |-> parse_operand_2(parts)]))

(***************************************************************************)
(* The engine: VM::execute_instruction.  Each opcode's arm is an operator  *)
(* from the current state and the instruction's operands to the effect of  *)
(* the arm: the new stack, memory, registers and running flag, what it     *)
(* printed, the next pc it returns, and whether it panicked.               *)
(***************************************************************************)
Keep ==
    [stack |-> stack, memory |-> memory, registers |-> registers,
     running |-> running, out |-> <<>>, next_pc |-> pc + 1, panic |-> FALSE]

Panic(e) == [e EXCEPT !.panic = TRUE]

Push(e, v) == [e EXCEPT !.stack = Append(@, v)]

WithStack(s) == [Keep EXCEPT !.stack = s]

\* PushArith in a machine that wraps in every build
PushArith_wrapping(e, r) == Push(e, r.v)

\* the result of +, -, *: pushed, unless it overflowed in a build that checks
PushArith(e, r) == IF r.ovf /\ overflow_checks THEN Panic(e) ELSE Push(e, r.v)

\* the same for `registers[r] += 1` and `-= 1`
SetRegArith(e, r, res) ==
    IF res.ovf /\ overflow_checks THEN Panic(e)
    ELSE [e EXCEPT !.registers = [@ EXCEPT ![r] = res.v]]

Top == stack[Len(stack)]
Second == stack[Len(stack) - 1]
PopOne == SubSeq(stack, 1, Len(stack) - 1)
PopTwo == SubSeq(stack, 1, Len(stack) - 2)

\* both operands of a register-mode instruction are register indices
valid_registers(operand_1, operand_2) ==
    /\ usize_lt(unwrap_or(operand_1, 0), REGISTER_AMOUNT)
    /\ usize_lt(operand_2[1], REGISTER_AMOUNT)

\* registers[i as usize] is in bounds
in_bounds(i) == usize_lt(i, REGISTER_AMOUNT)

exec_ADD(operand_1, operand_2) ==
    IF is_some(operand_2)
        THEN IF valid_registers(operand_1, operand_2)
                 THEN PushArith(Keep, add_i32(registers[unwrap_or(operand_1, 0)],
                                              registers[operand_2[1]]))
                 ELSE Keep
    ELSE IF Len(stack) < 2 THEN Keep
    ELSE LET b == Top
             a == Second
         IN  PushArith(WithStack(PopTwo), add_i32(a, b))

exec_SUB(operand_1, operand_2) ==
    IF is_some(operand_2)
        THEN IF valid_registers(operand_1, operand_2)
                 THEN PushArith(Keep, sub_i32(registers[unwrap_or(operand_1, 0)],
                                              registers[operand_2[1]]))
                 ELSE Keep
    ELSE IF Len(stack) < 2 THEN Keep
    ELSE LET b == Top
             a == Second
         IN  PushArith(WithStack(PopTwo), sub_i32(b, a))

exec_MUL(operand_1, operand_2) ==
    IF is_some(operand_2)
        THEN IF valid_registers(operand_1, operand_2)
                 THEN PushArith(Keep, mul_i32(registers[unwrap_or(operand_1, 0)],
                                              registers[operand_2[1]]))
                 ELSE Keep
    ELSE IF Len(stack) < 2 THEN Keep
    ELSE LET b == Top
             a == Second
         IN  PushArith(WithStack(PopTwo), mul_i32(a, b))

\* exec_DIV with the zero test on the other operand
exec_DIV_tests_left(operand_1, operand_2) ==
    IF is_some(operand_2)
        THEN IF valid_registers(operand_1, operand_2)
                 THEN LET x == registers[unwrap_or(operand_1, 0)]
                          y == registers[operand_2[1]]
                      IN  IF div_panics(x, y) THEN Panic(Keep)
                          ELSE Push(Keep, div_i32(x, y))
                 ELSE Keep
    ELSE IF Len(stack) < 2 THEN Keep
    ELSE LET b == Top
             a == Second
         IN  IF a # 0
                 THEN IF div_panics(b, a) THEN Panic(WithStack(PopTwo))
                      ELSE Push(WithStack(PopTwo), div_i32(b, a))
                 ELSE WithStack(PopTwo)

exec_DIV(operand_1, operand_2) ==
    IF is_some(operand_2)
        THEN IF valid_registers(operand_1, operand_2)
                 THEN LET x == registers[unwrap_or(operand_1, 0)]
                          y == registers[operand_2[1]]
                      IN  IF div_panics(x, y) THEN Panic(Keep)
                          ELSE Push(Keep, div_i32(x, y))
                 ELSE Keep
    ELSE IF Len(stack) < 2 THEN Keep
    ELSE LET b == Top
             a == Second
         IN  IF b # 0
                 THEN IF div_panics(b, a) THEN Panic(WithStack(PopTwo))
                      ELSE Push(WithStack(PopTwo), div_i32(b, a))
                 ELSE WithStack(PopTwo)

exec_MOD(operand_1, operand_2) ==
    IF is_some(operand_2)
        THEN IF valid_registers(operand_1, operand_2)
                 THEN LET x == registers[unwrap_or(operand_1, 0)]
                          y == registers[operand_2[1]]
                      IN  IF div_panics(x, y) THEN Panic(Keep)
                          ELSE Push(Keep, rem_i32(x, y))
                 ELSE Keep
    ELSE IF Len(stack) < 2 THEN Keep
    ELSE LET b == Top
             a == Second
         IN  IF b # 0
                 THEN IF div_panics(b, a) THEN Panic(WithStack(PopTwo))
                      ELSE Push(WithStack(PopTwo), rem_i32(b, a))
                 ELSE WithStack(PopTwo)

exec_INC(operand_1, operand_2) ==
    IF is_some(operand_1)
        THEN LET register == operand_1[1]
             IN  IF in_bounds(register)
                     THEN SetRegArith(Keep, register, add_i32(registers[register], 1))
                     ELSE Panic(Keep)
    ELSE IF Len(stack) > 0
        THEN PushArith(WithStack(PopOne), add_i32(Top, 1))
    ELSE Keep

exec_DEC(operand_1, operand_2) ==
    IF is_some(operand_1)
        THEN LET register == operand_1[1]
             IN  IF in_bounds(register)
                     THEN SetRegArith(Keep, register, sub_i32(registers[register], 1))
                     ELSE Panic(Keep)
    ELSE IF Len(stack) > 0
        THEN PushArith(WithStack(PopOne), sub_i32(Top, 1))
    ELSE Keep

exec_PSH(operand_1, operand_2) ==
    IF is_some(operand_1) THEN Push(Keep, operand_1[1]) ELSE Keep

exec_POP(operand_1, operand_2) ==
    IF Len(stack) = 0 THEN Keep ELSE WithStack(PopOne)

\* exec_STR with a bounds test that lets the address MAX_MEMORY_SIZE through
exec_STR_inclusive(operand_1, operand_2) ==
    IF Len(stack) > 0 /\ is_some(operand_1)
        THEN LET value == Top
                 address == operand_1[1]
             IN  IF address >= 0 /\ address <= MAX_MEMORY_SIZE
                     THEN [WithStack(PopOne) EXCEPT !.memory = map_insert(@, address, value)]
                     ELSE WithStack(PopOne)
    ELSE IF Len(stack) > 0 THEN WithStack(PopOne)
    ELSE Keep

exec_STR(operand_1, operand_2) ==
    IF Len(stack) > 0 /\ is_some(operand_1)
        THEN LET value == Top
                 address == operand_1[1]
             IN  IF address >= 0 /\ usize_lt(address, MAX_MEMORY_SIZE)
                     THEN [WithStack(PopOne) EXCEPT !.memory = map_insert(@, address, value)]
                     ELSE WithStack(PopOne)
    \* the tuple (self.stack.pop(), operand_1) is built before it is matched
    ELSE IF Len(stack) > 0 THEN WithStack(PopOne)
    ELSE Keep

\* exec_LOA reading an address that holds nothing as 0
exec_LOA_default(operand_1, operand_2) ==
    IF is_some(operand_1)
        THEN LET address == operand_1[1]
             IN  IF address >= 0 /\ contains_key(memory, address)
                     THEN Push(Keep, memory[address])
                     ELSE Push(Keep, 0)
    ELSE Keep

exec_LOA(operand_1, operand_2) ==
    IF is_some(operand_1)
        THEN LET address == operand_1[1]
             IN  IF address >= 0 /\ contains_key(memory, address)
                     THEN Push(Keep, memory[address])
                     ELSE Keep
    ELSE Keep

exec_DUP(operand_1, operand_2) ==
    IF Len(stack) = 0 THEN Keep
    ELSE LET a == Top
             b == a
         IN  Push(Push(WithStack(PopOne), a), b)

\* exec_SWP consuming the single entry of a stack that has no second one
exec_SWP_drops(operand_1, operand_2) ==
    IF Len(stack) = 0 THEN Keep
    ELSE IF Len(stack) = 1 THEN WithStack(PopOne)
    ELSE LET a == Top
             b == Second
         IN  Push(Push(WithStack(PopTwo), b), a)

exec_SWP(operand_1, operand_2) ==
    IF Len(stack) < 2 THEN Keep
    ELSE LET a == Top
             b == Second
         IN  Push(Push(WithStack(PopTwo), b), a)

\* exec_SCL treating the empty stack as the end of the run
exec_SCL_halts(operand_1, operand_2) ==
    IF Len(stack) = 0 THEN [Keep EXCEPT !.running = FALSE] ELSE WithStack(<<>>)

exec_SCL(operand_1, operand_2) ==
    IF Len(stack) = 0 THEN Keep ELSE WithStack(<<>>)

\* exec_SET reading the top without removing it
exec_SET_peeks(operand_1, operand_2) ==
    IF Len(stack) = 0 THEN Keep
    ELSE IF is_some(operand_1)
        THEN LET reg == operand_1[1]
             IN  IF in_bounds(reg)
                     THEN [Keep EXCEPT !.registers = [@ EXCEPT ![reg] = Top]]
                     ELSE Panic(Keep)
    ELSE Keep

exec_SET(operand_1, operand_2) ==
    IF Len(stack) = 0 THEN Keep
    ELSE IF is_some(operand_1)
        THEN LET reg == operand_1[1]
             \* the right-hand side pops before the index is checked
             IN  IF in_bounds(reg)
                     THEN [WithStack(PopOne) EXCEPT !.registers = [@ EXCEPT ![reg] = Top]]
                     ELSE Panic(WithStack(PopOne))
    ELSE Keep

exec_GET(operand_1, operand_2) ==
    IF is_some(operand_1)
        THEN LET reg == operand_1[1]
             IN  IF in_bounds(reg) THEN Push(Keep, registers[reg]) ELSE Panic(Keep)
    ELSE Keep

\* println!("{}", value)
PrintLine(e, value) == [e EXCEPT !.out = Append(@, [kind |-> "line", text |-> to_string(value)])]

\* read is what read_line produced: [ok, line]; Err(_) makes the expect panic
exec_INP(read) ==
    IF ~read.ok THEN Panic(Keep)
    ELSE LET parsed == parse_i32(trim(read.line))
         IN  IF parsed = None THEN Keep ELSE Push(Keep, parsed[1])

\* exec_PRT removing the value it prints
exec_PRT_pops(operand_1, operand_2) ==
    IF Len(stack) > 0 THEN PrintLine(WithStack(PopOne), Top) ELSE Keep

exec_PRT(operand_1, operand_2) ==
    IF Len(stack) > 0 THEN PrintLine(Keep, Top) ELSE Keep

exec_PPT(operand_1, operand_2) ==
    IF Len(stack) > 0 THEN PrintLine(WithStack(PopOne), Top) ELSE Keep

\* char::from_u32(value as u32) is Some: a scalar value that is not a surrogate
is_char(value) ==
    /\ value >= 0
    /\ value <= 1114111
    /\ ~(value >= 55296 /\ value <= 57343)

exec_PRC(operand_1, operand_2) ==
    IF Len(stack) > 0
        THEN IF is_char(Top)
                 THEN [WithStack(PopOne) EXCEPT !.out = Append(@, [kind |-> "char", code |-> Top])]
                 ELSE WithStack(PopOne)
    ELSE Keep

\* debug_state prints pc, stack, memory, registers and labels
exec_DEB(operand_1, operand_2) ==
    [Keep EXCEPT !.out = Append(@, [kind |-> "debug", pc |-> pc, stack |-> stack,
                                    memory |-> memory, registers |-> registers,
                                    labels |-> labels])]

exec_HLT(operand_1, operand_2) == [Keep EXCEPT !.running = FALSE]

\* exec_NOP returning pc instead of pc + 1
exec_NOP_stays(operand_1, operand_2) == [Keep EXCEPT !.next_pc = pc]

exec_NOP(operand_1, operand_2) == Keep

Jump(target) == [Keep EXCEPT !.next_pc = target]

\* exec_JMP taking any present target without the bounds test
exec_JMP_unchecked(operand_1, operand_2) ==
    IF is_some(operand_1) THEN Jump(operand_1[1]) ELSE Keep

exec_JMP(operand_1, operand_2) ==
    IF is_some(operand_1)
        THEN LET target == operand_1[1]
             IN  IF usize_lt(target, Len(program)) THEN Jump(target) ELSE Keep
    ELSE Keep

\* the target of a conditional jump whose test holds
conditional_target(operand_1) ==
    IF is_some(operand_1)
        THEN LET target == operand_1[1]
             IN  IF contains_key(labels, to_string(target))
                     THEN Jump(labels[to_string(target)])
                 ELSE IF usize_lt(target, Len(program)) THEN Jump(target)
                 ELSE Keep
    ELSE Keep

\* exec_JEZ popping the value it tests
exec_JEZ_pops(operand_1, operand_2) ==
    IF Len(stack) > 0 /\ Top = 0
        THEN [conditional_target(operand_1) EXCEPT !.stack = PopOne]
    ELSE IF Len(stack) > 0 THEN WithStack(PopOne)
    ELSE Keep

exec_JEZ(operand_1, operand_2) ==
    IF Len(stack) > 0 /\ Top = 0 THEN conditional_target(operand_1) ELSE Keep

exec_JNZ(operand_1, operand_2) ==
    IF Len(stack) > 0 /\ Top # 0 THEN conditional_target(operand_1) ELSE Keep

exec_JGZ(operand_1, operand_2) ==
    IF Len(stack) > 0 /\ Top > 0 THEN conditional_target(operand_1) ELSE Keep

exec_JLZ(operand_1, operand_2) ==
    IF Len(stack) > 0 /\ Top < 0 THEN conditional_target(operand_1) ELSE Keep

Bit(c) == IF c THEN 1 ELSE 0

exec_EQU(operand_1, operand_2) ==
    IF is_some(operand_2)
        THEN IF valid_registers(operand_1, operand_2)
                 THEN Push(Keep, Bit(unwrap_or(operand_1, 0) = operand_2[1]))
                 ELSE Keep
    ELSE IF Len(stack) < 2 THEN Keep
    ELSE LET a == Top
             b == Second
         IN  Push(WithStack(PopTwo), IF a = b THEN 1 ELSE 0)

exec_NEQ(operand_1, operand_2) ==
    IF is_some(operand_2)
        THEN IF valid_registers(operand_1, operand_2)
                 THEN Push(Keep, Bit(unwrap_or(operand_1, 0) # operand_2[1]))
                 ELSE Keep
    ELSE IF Len(stack) < 2 THEN Keep
    ELSE LET a == Top
             b == Second
         IN  Push(WithStack(PopTwo), IF a # b THEN 0 ELSE 1)

\* exec_GTH comparing the contents of the two registers
exec_GTH_contents(operand_1, operand_2) ==
    IF is_some(operand_2)
        THEN IF valid_registers(operand_1, operand_2)
                 THEN Push(Keep, Bit(registers[unwrap_or(operand_1, 0)]
                                     > registers[operand_2[1]]))
                 ELSE Keep
    ELSE IF Len(stack) < 2 THEN Keep
    ELSE LET a == Top
             b == Second
         IN  Push(WithStack(PopTwo), IF a < b THEN 1 ELSE 0)

exec_GTH(operand_1, operand_2) ==
    IF is_some(operand_2)
        THEN IF valid_registers(operand_1, operand_2)
                 THEN Push(Keep, Bit(unwrap_or(operand_1, 0) > operand_2[1]))
                 ELSE Keep
    ELSE IF Len(stack) < 2 THEN Keep
    ELSE LET a == Top
             b == Second
         IN  Push(WithStack(PopTwo), IF a < b THEN 1 ELSE 0)

exec_LTH(operand_1, operand_2) ==
    IF is_some(operand_2)
        THEN IF valid_registers(operand_1, operand_2)
                 THEN Push(Keep, Bit(unwrap_or(operand_1, 0) < operand_2[1]))
                 ELSE Keep
    ELSE IF Len(stack) < 2 THEN Keep
    ELSE LET a == Top
             b == Second
         IN  Push(WithStack(PopTwo), IF a > b THEN 1 ELSE 0)

exec_GTE(operand_1, operand_2) ==
    IF is_some(operand_2)
        THEN IF valid_registers(operand_1, operand_2)
                 THEN Push(Keep, Bit(unwrap_or(operand_1, 0) >= operand_2[1]))
                 ELSE Keep
    ELSE IF Len(stack) < 2 THEN Keep
    ELSE LET a == Top
             b == Second
         IN  Push(WithStack(PopTwo), IF a <= b THEN 1 ELSE 0)

\* exec_LTE comparing the top, as the left operand, with the entry below it
exec_LTE_top_first(operand_1, operand_2) ==
    IF is_some(operand_2)
        THEN IF valid_registers(operand_1, operand_2)
                 THEN Push(Keep, Bit(unwrap_or(operand_1, 0) <= operand_2[1]))
                 ELSE Keep
    ELSE IF Len(stack) < 2 THEN Keep
    ELSE LET a == Top
             b == Second
         IN  Push(WithStack(PopTwo), IF a <= b THEN 1 ELSE 0)

exec_LTE(operand_1, operand_2) ==
    IF is_some(operand_2)
        THEN IF valid_registers(operand_1, operand_2)
                 THEN Push(Keep, Bit(unwrap_or(operand_1, 0) <= operand_2[1]))
                 ELSE Keep
    ELSE IF Len(stack) < 2 THEN Keep
    ELSE LET a == Top
             b == Second
         IN  Push(WithStack(PopTwo), IF a >= b THEN 1 ELSE 0)

exec_MCL(operand_1, operand_2) ==
    IF DOMAIN memory = {} THEN Keep ELSE [Keep EXCEPT !.memory = EmptyMap]

\* now is the clock reading: before the epoch, or q * 2^31 + r seconds after it;
\* `as_secs() as i32` keeps the low 32 bits
exec_TIM(now) ==
    IF now.before_epoch THEN Panic(Keep)
    ELSE Push(Keep, IF now.q % 2 = 0 THEN now.r ELSE now.r + I32_MIN)

\* exec_MOV that leaves the source register as it was
exec_MOV_keeps_source(operand_1, operand_2) ==
    IF is_some(operand_2)
        THEN LET src == unwrap_or(operand_1, 0)
                 dst == operand_2[1]
             IN  IF ~in_bounds(src) THEN Panic(Keep)
                 ELSE LET value == registers[src]
                      IN  IF ~in_bounds(dst) THEN Panic(Keep)
                          ELSE [Keep EXCEPT !.registers = [@ EXCEPT ![dst] = value]]
    ELSE Keep

exec_MOV(operand_1, operand_2) ==
    IF is_some(operand_2)
        THEN LET src == unwrap_or(operand_1, 0)
                 dst == operand_2[1]
             IN  IF ~in_bounds(src) THEN Panic(Keep)
                 ELSE LET value == registers[src]
                          zeroed == [registers EXCEPT ![src] = 0]
                      IN  IF ~in_bounds(dst)
                              THEN Panic([Keep EXCEPT !.registers = zeroed])
                              ELSE [Keep EXCEPT !.registers = [zeroed EXCEPT ![dst] = value]]
    ELSE Keep

exec_COP(operand_1, operand_2) ==
    IF is_some(operand_2)
        THEN LET src == unwrap_or(operand_1, 0)
                 dst == operand_2[1]
             IN  IF ~in_bounds(src) THEN Panic(Keep)
                 ELSE LET value == registers[src]
                      IN  IF ~in_bounds(dst) THEN Panic(Keep)
                          ELSE [Keep EXCEPT !.registers = [@ EXCEPT ![dst] = value]]
    ELSE Keep

(***************************************************************************)
(* Bounds of the model.                                                    *)
(***************************************************************************)
\* instructions executed in one run (a program may loop forever)
MaxSteps == 8
\* lines of the sources built freely from LoaderLines
MaxLines == 3

(***************************************************************************)
(* The inputs: the text of program.vm, what stdin holds, what the clock    *)
(* reads.                                                                  *)
(***************************************************************************)
Vals == {I32_MIN, -7, -1, 0, 2, I32_MAX}
SmallVals == {-1, 0, 2}
RegVals == {I32_MIN, -1, 0, 2}

\* "MNEMONIC operand"
L1(m, x) == m \o " " \o to_string(x)
\* "MNEMONIC operand operand"
L2(m, x, y) == m \o " " \o to_string(x) \o " " \o to_string(y)

BinaryMnemonics ==
    {"ADD", "SUB", "MUL", "DIV", "MOD", "EQU", "NEQ", "GTH", "LTH", "GTE", "LTE"}

StackBinarySources ==
    {<<L1("PSH", x), L1("PSH", y), m, "PPT">> :
        x \in Vals, y \in Vals, m \in BinaryMnemonics \cup {"SWP"}}

UnderflowSources ==
    {<<L1("PSH", x), m, "PPT">> : x \in SmallVals, m \in BinaryMnemonics \cup {"SWP"}}
    \cup {<<m, "PPT">> : m \in BinaryMnemonics \cup {"SWP"}}

RegisterTokens == {"1", "2", "-1", "8"}

RegisterBinarySources ==
    {<<L1("PSH", x), "SET 1", L1("PSH", y), "SET 2", m \o " " \o i \o " " \o j, "PPT">> :
        x \in RegVals, y \in RegVals, m \in BinaryMnemonics,
        i \in RegisterTokens, j \in RegisterTokens}
    \cup {<<"PSH 2", "SET 0", m \o " x 0", "PPT">> : m \in BinaryMnemonics}

RegisterIndices == (-1)..REGISTER_AMOUNT

RegisterMoveSources ==
    {<<L1("PSH", v), L1("SET", s), L2(m, s, d), L1("GET", s), L1("GET", d)>> :
        v \in Vals, s \in RegisterIndices, d \in RegisterIndices, m \in {"MOV", "COP"}}
    \cup {<<"PSH 2", "SET 0", m \o t, "GET 0", "GET 3">> :
            m \in {"MOV", "COP"}, t \in {"", " 3", " x 3", " 0 x"}}

SetGetSources ==
    {<<L1("PSH", x), L1("PSH", y), L1("SET", r), L1("GET", r)>> :
        x \in SmallVals, y \in SmallVals, r \in RegisterIndices}
    \cup {<<L1("PSH", x), L1("SET", r), L1("GET", r)>> : x \in SmallVals, r \in RegisterIndices}
    \cup {<<"PSH 2", "SET 1", L1("PSH", x), L1("SET", r), L1("GET", r)>> :
            x \in SmallVals, r \in RegisterIndices}
    \cup {<<L1("SET", r), L1("GET", r)>> : r \in RegisterIndices}
    \cup {<<"PSH 2", "SET 1", "SCL", L1("SET", r), L1("GET", r)>> : r \in RegisterIndices}
    \cup {<<"PSH 2", "SET", "GET", "PPT">>}

IncDecSources ==
    {<<L1("PSH", v), L1("SET", r), L1(m, r), L1("GET", r)>> :
        v \in Vals, r \in {-1, 0, 7, 8}, m \in {"INC", "DEC"}}
    \cup {<<L1("PSH", v), m, "PPT">> : v \in Vals, m \in {"INC", "DEC"}}
    \cup {<<m, "PPT">> : m \in {"INC", "DEC"}}

Addresses == {-1, 0, 5, MAX_MEMORY_SIZE - 1, MAX_MEMORY_SIZE}

MemorySources ==
    {<<"PSH 7", L1("PSH", v), L1("STR", a), L1("LOA", a), "PPT", "MCL", "MCL">> :
        v \in SmallVals, a \in Addresses}
    \cup {<<"PSH 7", L1("LOA", a), "PPT">> : a \in Addresses}
    \cup {<<L1("STR", a), "LOA 0", "MCL", "PSH 1", "PPT">> : a \in Addresses}
    \cup {<<"PSH 7", "PSH 2", "STR", "LOA", "PPT">>,
          <<"PSH 1", "STR 0", "PSH 2", "STR 5", "PSH 3", "STR 0", "LOA 0", "LOA 5">>,
          <<"PSH 1", "SCL", "SCL", "PSH 2", "PPT">>,
          <<"SCL", "PSH 2", "PPT">>,
          <<"SCL", "MCL", "PSH 2", "PPT">>,
          <<"PSH 1", "PSH 2", "SCL", "POP", "DUP", "PSH 3", "DUP", "POP">>}

JumpTokens == {"", " -1", " 0", " 2", " 4", " 5", " 6", " x", " end"}

JumpSources ==
    {<<L1("PSH", v), m \o t, "PSH 5", "PPT", "end:", "HLT">> :
        v \in SmallVals, m \in {"JMP", "JEZ", "JNZ", "JGZ", "JLZ"}, t \in JumpTokens}
    \cup {<<m \o t, "PSH 5", "PPT", "end:", "HLT">> :
            m \in {"JMP", "JEZ", "JNZ", "JGZ", "JLZ"}, t \in JumpTokens}

IoSources ==
    {<<"INP", "PRT", "PPT">>, <<"INP", "INP", "ADD", "PPT">>,
     <<"TIM", "DEB", "POP", "POP">>, <<"PRT", "PPT", "PRC", "NOP", "DEB">>}
    \cup {<<L1("PSH", c), "PRC", "PPT">> : c \in {-1, 65, 55295, 55296, 57343, 57344, 1114111, 1114112}}

LoaderLines ==
    {"", "# c", "a:", " 2 : ", "FOO 1", "jmp a", "JEZ a", "JNZ 2", "PSH a", "PSH 0",
     "DEC", "PSH 1 a"}

RECURSIVE SeqsUpTo(_, _)
SeqsUpTo(S, n) ==
    IF n = 0 THEN {<<>>}
    ELSE LET shorter == SeqsUpTo(S, n - 1)
         IN  shorter \cup {Append(q, x) : q \in {r \in shorter : Len(r) = n - 1}, x \in S}

LoaderSources == SeqsUpTo(LoaderLines, MaxLines)

ExampleSources ==
    {<<"PSH 10", "PSH 20", "ADD", "PRT", "PSH 2", "MUL", "PRT", "HLT">>,
     <<"loop:", "PSH 3", "JEZ loop", "PPT">>,
     <<"  # count down", "PSH 2", "loop:", "DEC", "JNZ loop", "PPT", "HLT">>,
     <<"JMP end", "PSH 1", "end:", "PSH 2", "PPT">>,
     <<"start:", "PSH 1", "POP", "JMP start">>,
     <<"PSH 0", "FOO", "FOO", "3:", "JEZ 3">>,
     <<"1:", "PSH 0", "a:", "JEZ a", "HLT">>,
     <<"PSH 0", "BAR 1", "end:", "JEZ end", "PSH 1">>,
     <<"PSH 1", "HLT", "PSH 2", "PPT">>,
     <<"\fPSH 9", "PSH\f1 ", "add\f", "PPT">>,
     <<"\f", "PSH 0", "a:\f", "\f# c", "JEZ a\f", "PPT">>,
     \* lines with a vertical tab (U+000B) where white space goes
     <<"", "a:", "PSH1", "JEZa", "PPT">>,
     <<"PSH 4", "psh5", "add", "PPT">>}

\* The lines of every source, and the lines read from stdin below, hold ASCII
\* characters only: the model checker stores the strings of a state one byte per
\* character, so a character from U+0080 on would not stay what it is from one
\* state to the next.
Sources ==
    StackBinarySources \cup UnderflowSources \cup RegisterBinarySources
    \cup RegisterMoveSources \cup SetGetSources \cup IncDecSources \cup MemorySources
    \cup JumpSources \cup IoSources \cup LoaderSources \cup ExampleSources

\* what opening and reading program.vm gives: its lines (source), or an error
\* (no such file, a line that is not UTF-8)
FileReads == {[ok |-> TRUE], [ok |-> FALSE]}

\* what read_line gives for one INP
StdinReads ==
    {[ok |-> TRUE, line |-> "5\n"], [ok |-> TRUE, line |-> " -3 \r\n"],
     [ok |-> TRUE, line |-> "abc\n"], [ok |-> TRUE, line |-> ""],
     [ok |-> TRUE, line |-> "\f5\n"], [ok |-> TRUE, line |-> "5\n"],
     [ok |-> TRUE, line |-> "2147483648\n"], [ok |-> FALSE, line |-> ""]}

\* what SystemTime::now() gives for one TIM
ClockReads ==
    {[before_epoch |-> FALSE, q |-> 0, r |-> 1700000000],
     [before_epoch |-> FALSE, q |-> 1, r |-> 5],
     [before_epoch |-> TRUE, q |-> 0, r |-> 0]}

(***************************************************************************)
(* main(): VM::new, load_program_from_file, run.                           *)
(***************************************************************************)
Init ==
    /\ source \in Sources
    /\ overflow_checks \in BOOLEAN
    /\ stack = <<>>
    /\ memory = EmptyMap
    /\ registers = [i \in 0..(REGISTER_AMOUNT - 1) |-> 0]
    /\ program = <<>>
    /\ pc = 0
    /\ running = FALSE
    /\ labels = EmptyMap
    /\ phase = "new"
    /\ output = <<>>
    /\ trace = <<>>

load_program_from_file ==
    /\ phase = "new"
    /\ \E read \in FileReads :
           IF read.ok
               THEN /\ labels' = first_pass(source, 1, labels, 0)
                    /\ program' = second_pass(source, 1, labels', <<>>)
                    /\ pc' = 0
                    /\ phase' = "loaded"
               \* File::open or reader.lines() gave Err: `?` returns it before
               \* anything is assigned, and main returns without calling run
               ELSE /\ phase' = "load_failed"
                    /\ UNCHANGED <<labels, program, pc>>
    /\ UNCHANGED <<stack, memory, registers, running, source, output,
                   overflow_checks, trace>>

\* run(): self.running = true, then the loop
run ==
    /\ phase = "loaded"
    /\ running' = TRUE
    /\ phase' = "running"
    /\ UNCHANGED <<stack, memory, registers, program, pc, labels, source, output,
                   overflow_checks, trace>>

\* the loop condition fails: run() and main() return
run_return ==
    /\ phase = "running"
    /\ ~(running /\ pc < Len(program))
    /\ phase' = "done"
    /\ UNCHANGED <<stack, memory, registers, program, pc, running, labels, source,
                   output, overflow_checks, trace>>

\* the instruction at pc (program is 0-indexed in the code)
Instr == program[pc + 1]
Op1 == Instr.operand_1
Op2 == Instr.operand_2

\* Fetch with a loop condition that tests pc only
Fetch_ignores_running(op) ==
    /\ phase = "running"
    /\ pc < Len(program)
    /\ Len(trace) < MaxSteps
    /\ Instr.op = op

\* the loop condition holds and the instruction at pc has this opcode
Fetch(op) ==
    /\ phase = "running"
    /\ running
    /\ pc < Len(program)
    /\ Len(trace) < MaxSteps
    /\ Instr.op = op

\* one iteration of the loop: the arm's effect, then self.pc = next_pc
\* (env is what the arm read from stdin or the clock, if anything)
ApplyEnv(e, env) ==
    /\ stack' = e.stack
    /\ memory' = e.memory
    /\ registers' = e.registers
    /\ running' = e.running
    /\ output' = output \o e.out
    /\ pc' = IF e.panic THEN pc ELSE e.next_pc
    /\ phase' = IF e.panic THEN "panicked" ELSE phase
    /\ trace' = Append(trace,
                       [op |-> Instr.op, operand_1 |-> Op1, operand_2 |-> Op2, pc |-> pc,
                        stack |-> stack, memory |-> memory, registers |-> registers,
                        output |-> output, env |-> env, panic |-> e.panic])
    /\ UNCHANGED <<program, labels, source, overflow_checks>>

Apply(e) == ApplyEnv(e, <<>>)

ExecADD == Fetch("ADD") /\ Apply(exec_ADD(Op1, Op2))
ExecSUB == Fetch("SUB") /\ Apply(exec_SUB(Op1, Op2))
ExecMUL == Fetch("MUL") /\ Apply(exec_MUL(Op1, Op2))
ExecDIV == Fetch("DIV") /\ Apply(exec_DIV(Op1, Op2))
ExecMOD == Fetch("MOD") /\ Apply(exec_MOD(Op1, Op2))
ExecINC == Fetch("INC") /\ Apply(exec_INC(Op1, Op2))
ExecDEC == Fetch("DEC") /\ Apply(exec_DEC(Op1, Op2))
ExecPSH == Fetch("PSH") /\ Apply(exec_PSH(Op1, Op2))
ExecPOP == Fetch("POP") /\ Apply(exec_POP(Op1, Op2))
ExecSTR == Fetch("STR") /\ Apply(exec_STR(Op1, Op2))
ExecLOA == Fetch("LOA") /\ Apply(exec_LOA(Op1, Op2))
ExecDUP == Fetch("DUP") /\ Apply(exec_DUP(Op1, Op2))
ExecSWP == Fetch("SWP") /\ Apply(exec_SWP(Op1, Op2))
ExecSCL == Fetch("SCL") /\ Apply(exec_SCL(Op1, Op2))
ExecSET == Fetch("SET") /\ Apply(exec_SET(Op1, Op2))
ExecGET == Fetch("GET") /\ Apply(exec_GET(Op1, Op2))
ExecINP == Fetch("INP") /\ \E read \in StdinReads : ApplyEnv(exec_INP(read), <<read>>)
ExecPRT == Fetch("PRT") /\ Apply(exec_PRT(Op1, Op2))
ExecPPT == Fetch("PPT") /\ Apply(exec_PPT(Op1, Op2))
ExecPRC == Fetch("PRC") /\ Apply(exec_PRC(Op1, Op2))
ExecDEB == Fetch("DEB") /\ Apply(exec_DEB(Op1, Op2))
ExecHLT == Fetch("HLT") /\ Apply(exec_HLT(Op1, Op2))
ExecNOP == Fetch("NOP") /\ Apply(exec_NOP(Op1, Op2))
ExecJMP == Fetch("JMP") /\ Apply(exec_JMP(Op1, Op2))
ExecJEZ == Fetch("JEZ") /\ Apply(exec_JEZ(Op1, Op2))
ExecJNZ == Fetch("JNZ") /\ Apply(exec_JNZ(Op1, Op2))
ExecJGZ == Fetch("JGZ") /\ Apply(exec_JGZ(Op1, Op2))
ExecJLZ == Fetch("JLZ") /\ Apply(exec_JLZ(Op1, Op2))
ExecEQU == Fetch("EQU") /\ Apply(exec_EQU(Op1, Op2))
ExecNEQ == Fetch("NEQ") /\ Apply(exec_NEQ(Op1, Op2))
ExecGTH == Fetch("GTH") /\ Apply(exec_GTH(Op1, Op2))
ExecLTH == Fetch("LTH") /\ Apply(exec_LTH(Op1, Op2))
ExecGTE == Fetch("GTE") /\ Apply(exec_GTE(Op1, Op2))
ExecLTE == Fetch("LTE") /\ Apply(exec_LTE(Op1, Op2))
ExecMCL == Fetch("MCL") /\ Apply(exec_MCL(Op1, Op2))
ExecTIM == Fetch("TIM") /\ \E now \in ClockReads : ApplyEnv(exec_TIM(now), <<now>>)
ExecMOV == Fetch("MOV") /\ Apply(exec_MOV(Op1, Op2))
ExecCOP == Fetch("COP") /\ Apply(exec_COP(Op1, Op2))

execute_instruction ==
    \/ ExecADD \/ ExecSUB \/ ExecMUL \/ ExecDIV \/ ExecMOD \/ ExecINC \/ ExecDEC
    \/ ExecPSH \/ ExecPOP \/ ExecSTR \/ ExecLOA \/ ExecDUP \/ ExecSWP \/ ExecSCL
    \/ ExecSET \/ ExecGET \/ ExecINP \/ ExecPRT \/ ExecPPT \/ ExecPRC \/ ExecDEB
    \/ ExecHLT \/ ExecNOP \/ ExecJMP \/ ExecJEZ \/ ExecJNZ \/ ExecJGZ \/ ExecJLZ
    \/ ExecEQU \/ ExecNEQ \/ ExecGTH \/ ExecLTH \/ ExecGTE \/ ExecLTE \/ ExecMCL
    \/ ExecTIM \/ ExecMOV \/ ExecCOP

Next == load_program_from_file \/ run \/ execute_instruction \/ run_return

Spec == Init /\ [][Next]_vars

(***************************************************************************)
(* Vocabulary of the properties: the step executed last (Last) and the one *)
(* before it (Prev), each recorded with the state it was executed in; the  *)
(* state after Last is the current state.                                  *)
(***************************************************************************)
\* load_program_from_file has returned Ok
HasLoaded == phase \notin {"new", "load_failed"}

Executed == Len(trace) >= 1
ExecutedTwo == Len(trace) >= 2
Last == trace[Len(trace)]
Prev == trace[Len(trace) - 1]

TopOf(s) == s[Len(s)]
SecondOf(s) == s[Len(s) - 1]
DropTwo(s) == SubSeq(s, 1, Len(s) - 2)
DropOne(s) == SubSeq(s, 1, Len(s) - 1)

StackMode(t) == t.operand_2 = None
RegisterMode(t) ==
    /\ t.operand_2 # None
    /\ unwrap_or(t.operand_1, 0) \in 0..(REGISTER_AMOUNT - 1)
    /\ t.operand_2[1] \in 0..(REGISTER_AMOUNT - 1)

\* Last completed and the loop goes on with the instruction after it
FellThrough == ~Last.panic /\ phase # "panicked" /\ pc = Last.pc + 1

\* line i of the source is a label line, and the name it defines
IsLabelLine(i) ==
    LET line == trim(source[i])
    IN  line # "" /\ ~starts_with(line, "#") /\ ends_with(line, ":")
LabelName(i) == LET line == trim(source[i]) IN trim(SubSeq(line, 1, Len(line) - 1))

\* the number of instructions of the final Program that come from lines before line i
EmittedBefore(i) == Len(second_pass(SubSeq(source, 1, i - 1), 1, labels, <<>>))

\* line i is the defining (last) label line of its name
DefiningLabelLine(i) ==
    /\ IsLabelLine(i)
    /\ \A j \in (i + 1)..Len(source) : IsLabelLine(j) => LabelName(j) # LabelName(i)

(* C1: after load_program_from_file, every label resolves to the position  *)
(* in the final Program of the first instruction emitted from a line after *)
(* the label line (the Program length if none follows).                    *)
C1_LabelIndexIsProgramPosition ==
    HasLoaded =>
        \A i \in 1..Len(source) :
            DefiningLabelLine(i) =>
                /\ contains_key(labels, LabelName(i))
                /\ labels[LabelName(i)] = EmittedBefore(i)

(* C2: stack-mode SUB, DIV and MOD on a stack [.., x, y] (y on top, y not   *)
(* zero for DIV and MOD, the result within i32) remove x and y and push    *)
(* x - y, x / y and x % y.                                                 *)
C2_LeftOperandPushedFirst ==
    (/\ Executed
     /\ Last.op \in {"SUB", "DIV", "MOD"}
     /\ StackMode(Last)
     /\ Len(Last.stack) >= 2
     /\ Last.op \in {"DIV", "MOD"} => TopOf(Last.stack) # 0
     /\ Last.op = "SUB" => ~sub_i32(SecondOf(Last.stack), TopOf(Last.stack)).ovf
     /\ Last.op \in {"DIV", "MOD"} =>
            ~(SecondOf(Last.stack) = I32_MIN /\ TopOf(Last.stack) = -1))
    => LET x == SecondOf(Last.stack)
           y == TopOf(Last.stack)
       IN  /\ ~Last.panic
           /\ stack = Append(DropTwo(Last.stack),
                             CASE Last.op = "SUB" -> sub_i32(x, y).v
                               [] Last.op = "DIV" -> div_i32(x, y)
                               [] Last.op = "MOD" -> rem_i32(x, y))

\* the divisor of the DIV or MOD step t is zero: in register mode the content of
\* the second register, in stack mode the right operand (the top) or the value
\* the arm divides by (the entry below the top)
ZeroDivisor(t) ==
    \/ RegisterMode(t) /\ t.registers[t.operand_2[1]] = 0
    \/ /\ StackMode(t)
       /\ Len(t.stack) >= 2
       /\ (TopOf(t.stack) = 0 \/ SecondOf(t.stack) = 0)

(* C3: a DIV or MOD whose divisor is zero, in stack mode or in register     *)
(* mode, does not stop the run: it pushes no result, running stays true    *)
(* and the next pc is pc + 1.                                              *)
C3_ZeroDivisorNeverStopsRun ==
    (Executed /\ Last.op \in {"DIV", "MOD"} /\ ZeroDivisor(Last))
    => /\ FellThrough
       /\ running
       /\ stack = (IF StackMode(Last) THEN DropTwo(Last.stack) ELSE Last.stack)

(* C4: stack-mode DIV and MOD on a stack of at least two entries whose top  *)
(* is zero push no result, and the next pc is pc + 1 with the machine      *)
(* still running.                                                          *)
C4_StackDivByZeroTop ==
    (/\ Executed
     /\ Last.op \in {"DIV", "MOD"}
     /\ StackMode(Last)
     /\ Len(Last.stack) >= 2
     /\ TopOf(Last.stack) = 0)
    => /\ FellThrough
       /\ running
       /\ stack = DropTwo(Last.stack)
       /\ memory = Last.memory
       /\ registers = Last.registers

C4_Witness ==
    /\ Executed
    /\ Last.op = "DIV"
    /\ StackMode(Last)
    /\ Len(Last.stack) >= 2
    /\ TopOf(Last.stack) = 0
    /\ SecondOf(Last.stack) # 0
    /\ phase = "running"
    /\ pc < Len(program)

\* step t is an INP that read a line which is not a signed integer
UnparseableInput(t) ==
    /\ t.op = "INP"
    /\ t.env # <<>>
    /\ t.env[1].ok
    /\ parse_i32(trim(t.env[1].line)) = None

(* C5 as stated: an INP that reads a line which does not parse aborts the   *)
(* run: nothing is pushed and no instruction is executed after it.         *)
C5_UnparseableInputAborts ==
    \A k \in 1..Len(trace) :
        UnparseableInput(trace[k]) =>
            /\ k = Len(trace)
            /\ stack = trace[k].stack
            /\ ~(phase = "running" /\ running /\ pc < Len(program))

\* step t is MOV src dst or COP src dst with both indices in [0,8)
ValidMove(t) ==
    /\ t.op \in {"MOV", "COP"}
    /\ t.operand_1 # None
    /\ RegisterMode(t)

\* Prev is MOV/COP src dst and Last is the GET src executed right after it
MoveThenGet ==
    /\ ExecutedTwo
    /\ ValidMove(Prev)
    /\ Last.op = "GET"
    /\ Last.operand_1 = Prev.operand_1

(* C6 as stated: for all src, dst in [0,8), src = dst included, and v the   *)
(* value of src: MOV src dst then GET src pushes 0, COP src dst then       *)
(* GET src pushes v, and after either instruction dst holds v.             *)
C6_MoveZeroesSource ==
    MoveThenGet =>
        LET src == Prev.operand_1[1]
            dst == Prev.operand_2[1]
            v == Prev.registers[src]
        IN  /\ ~Last.panic
            /\ Last.registers[dst] = v
            /\ stack = Append(Last.stack, IF Prev.op = "MOV" THEN 0 ELSE v)

(* C6 amended: for all src, dst in [0,8) and v the value of src: MOV src    *)
(* dst then GET src pushes 0 when src /= dst and v when src = dst; COP src *)
(* dst then GET src pushes v; after either instruction dst holds v.        *)
C6_MoveZeroesDistinctSource ==
    MoveThenGet =>
        LET src == Prev.operand_1[1]
            dst == Prev.operand_2[1]
            v == Prev.registers[src]
        IN  /\ ~Prev.panic
            /\ ~Last.panic
            /\ Last.registers[dst] = v
            /\ stack = Append(Last.stack,
                              IF Prev.op = "MOV" /\ src # dst THEN 0 ELSE v)

C6_Witness ==
    /\ MoveThenGet
    /\ Prev.op = "MOV"
    /\ Prev.operand_1[1] # Prev.operand_2[1]
    /\ Prev.registers[Prev.operand_1[1]] = -7
    /\ stack = <<0>>

\* Prev is SET r with r in [0,8) and Last is the GET r executed right after it
SetThenGet ==
    /\ ExecutedTwo
    /\ Prev.op = "SET"
    /\ Prev.operand_1 # None
    /\ Prev.operand_1[1] \in 0..(REGISTER_AMOUNT - 1)
    /\ Last.op = "GET"
    /\ Last.operand_1 = Prev.operand_1

(* C7 as stated: for every r in [0,8) and every stack, the empty one        *)
(* included, SET r immediately followed by GET r leaves the stack as it    *)
(* was before the SET.                                                     *)
C7_SetGetRoundTrip == SetThenGet => stack = Prev.stack

(* C7 amended: for every r in [0,8) and every non-empty stack, SET r        *)
(* immediately followed by GET r leaves the stack as it was before the     *)
(* SET (and register r holds the value that was on top).                   *)
C7_SetGetRoundTripNonEmpty ==
    (SetThenGet /\ Len(Prev.stack) > 0) =>
        /\ ~Last.panic
        /\ stack = Prev.stack
        /\ registers[Prev.operand_1[1]] = TopOf(Prev.stack)

C7_Witness ==
    /\ SetThenGet
    /\ Len(Prev.stack) = 2
    /\ TopOf(Prev.stack) = 2
    /\ Prev.registers[Prev.operand_1[1]] = 0
    /\ Len(stack) = 2

(* C8: stack-mode EQU and NEQ on a stack of at least two entries remove the *)
(* top two values a and b and push one value: EQU 1 if a = b else 0, NEQ   *)
(* 1 if a /= b else 0.                                                     *)
C8_EqualityPushesPredicate ==
    (/\ Executed
     /\ Last.op \in {"EQU", "NEQ"}
     /\ StackMode(Last)
     /\ Len(Last.stack) >= 2)
    => LET a == TopOf(Last.stack)
           b == SecondOf(Last.stack)
       IN  /\ ~Last.panic
           /\ stack = Append(DropTwo(Last.stack),
                             IF Last.op = "EQU" THEN Bit(a = b) ELSE Bit(a # b))

Comparisons == {"EQU", "NEQ", "GTH", "LTH", "GTE", "LTE"}

\* the predicate of a comparison opcode on i and j
Compare(op, i, j) ==
    CASE op = "EQU" -> i = j
      [] op = "NEQ" -> i # j
      [] op = "GTH" -> i > j
      [] op = "LTH" -> i < j
      [] op = "GTE" -> i >= j
      [] op = "LTE" -> i <= j

(* C9: a register-mode comparison (second operand present, both operands   *)
(* in [0,8)) pushes 1 or 0 by its predicate on the two operand indices,    *)
(* whatever the registers hold, and modifies no register.                  *)
C9_RegisterComparisonUsesIndices ==
    (Executed /\ Last.op \in Comparisons /\ RegisterMode(Last)) =>
        /\ FellThrough
        /\ stack = Append(Last.stack,
                          Bit(Compare(Last.op, unwrap_or(Last.operand_1, 0),
                                      Last.operand_2[1])))
        /\ registers = Last.registers
        /\ memory = Last.memory

C9_Witness ==
    /\ Executed
    /\ Last.op = "GTH"
    /\ Last.operand_1 = Some(1)
    /\ Last.operand_2 = Some(2)
    /\ Last.registers[1] > Last.registers[2]
    /\ stack = <<0>>

Jumps == {"JMP", "JEZ", "JNZ", "JGZ", "JLZ"}

\* the test of the conditional jump op holds on the value v
JumpTest(op, v) ==
    CASE op = "JEZ" -> v = 0
      [] op = "JNZ" -> v # 0
      [] op = "JGZ" -> v > 0
      [] op = "JLZ" -> v < 0

(* C10: JMP, JEZ, JNZ, JGZ and JLZ never modify the stack, the memory or    *)
(* the registers (jump taken or not, stack empty, target invalid); when    *)
(* the test of a conditional jump is false or the stack is empty, the      *)
(* next pc is pc + 1.                                                      *)
C10_JumpsOnlyMovePc ==
    (Executed /\ Last.op \in Jumps) =>
        /\ ~Last.panic
        /\ phase # "panicked"
        /\ running
        /\ stack = Last.stack
        /\ memory = Last.memory
        /\ registers = Last.registers
        /\ (/\ Last.op # "JMP"
            /\ (Last.stack = <<>> \/ ~JumpTest(Last.op, TopOf(Last.stack))))
           => pc = Last.pc + 1

C10_Witness ==
    /\ ExecutedTwo
    /\ Prev.op = "JEZ"
    /\ Prev.stack = <<3>>
    /\ Prev.operand_1 = Some(0)
    /\ Last.op = "PPT"
    /\ Last.pc = Prev.pc + 1
    /\ output = <<[kind |-> "line", text |-> "3"]>>

(* C11: JMP with operand t sets the next pc to t when 0 <= t < len; for    *)
(* every other operand (negative, t >= len, or absent) the next pc is      *)
(* pc + 1 and the machine keeps running; nothing else changes.             *)
C11_JmpTarget ==
    (Executed /\ Last.op = "JMP")
    => /\ ~Last.panic
       /\ phase # "panicked"
       /\ running
       /\ pc = IF /\ is_some(Last.operand_1)
                  /\ 0 <= Last.operand_1[1]
                  /\ Last.operand_1[1] < Len(program)
               THEN Last.operand_1[1]
               ELSE Last.pc + 1
       /\ stack = Last.stack
       /\ memory = Last.memory
       /\ registers = Last.registers

\* a JMP was taken to a target other than the next instruction
C11_Witness ==
    /\ Executed
    /\ Last.op = "JMP"
    /\ is_some(Last.operand_1)
    /\ pc = Last.operand_1[1]
    /\ pc # Last.pc + 1

\* an instruction is executed in this step
Executes == trace' # trace

\* run() has returned, or the process was ended by a panic
Stopped == phase \in {"done", "panicked"}

(* C12: run() executes an instruction only while running is true and       *)
(* pc < len; it returns exactly when a HLT has been executed or pc has     *)
(* left [0, len); HLT is the only instruction that sets running to false;  *)
(* and once the run has stopped, the stack, memory, registers and pc (and  *)
(* everything else) never change again.                                    *)
C12_RunLoop ==
    /\ [](/\ \A k \in 1..Len(trace) : trace[k].pc >= 0 /\ trace[k].pc < Len(program)
          /\ (phase \in {"running", "done", "panicked"} /\ ~running)
                 => (Executed /\ Last.op = "HLT")
          /\ phase = "done"
                 => ((Executed /\ Last.op = "HLT" /\ ~running) \/ pc >= Len(program)))
    /\ [][/\ Executes => (phase = "running" /\ running /\ pc >= 0 /\ pc < Len(program))
          /\ (running /\ ~running') => (Executes /\ Instr.op = "HLT")
          /\ (phase = "running" /\ (~running \/ pc >= Len(program)))
                 => (phase' = "done" /\ ~Executes)
          /\ <<stack, memory, registers, pc>>' # <<stack, memory, registers, pc>>
                 => Executes
          /\ Stopped => UNCHANGED vars]_vars

\* run() returned after a HLT with instructions still ahead of pc
C12_Witness ==
    /\ phase = "done"
    /\ Executed
    /\ Last.op = "HLT"
    /\ ~running
    /\ pc < Len(program)

\* what the loader sees in line i of the source: whether the line is neither
\* blank nor a comment nor a label line (code), its whitespace-separated
\* tokens, whether its mnemonic is a recognized one (instruction), and whether
\* it is a label line (label) and of which name
LineFacts(i) ==
    LET line == trim(source[i])
        content == line # "" /\ ~starts_with(line, "#")
        label == content /\ ends_with(line, ":")
        code == content /\ ~label
        parts == IF code THEN split_whitespace(line) ELSE <<>>
        opcode == IF code THEN parse_opcode(parts[1]) ELSE None
    IN  [code |-> code, tokens |-> parts, mnemonic |-> unwrap_or(opcode, ""),
         instruction |-> is_some(opcode),
         label |-> label,
         name |-> IF label THEN trim(SubSeq(line, 1, Len(line) - 1)) ELSE ""]

\* the facts of all lines from line i on, and of the whole source
RECURSIVE FactsFrom(_)
FactsFrom(i) == IF i > Len(source) THEN <<>> ELSE <<LineFacts(i)>> \o FactsFrom(i + 1)
SourceFacts == FactsFrom(1)

\* the number of recognized-mnemonic lines among the first i lines
InstructionRank(f, i) == Cardinality({j \in 1..i : f[j].instruction})

\* the instruction loaded from instruction line i
Loaded(f, i) == program[InstructionRank(f, i)]

(* C13: loading never aborts on an unrecognized mnemonic: when it is done, *)
(* the Program is exactly the sequence of the instructions of the lines    *)
(* with a recognized mnemonic, in source order; lines with an unrecognized *)
(* mnemonic, label lines, comment lines and blank lines contribute nothing.*)
C13_ProgramIsRecognizedLines ==
    phase = "loaded"
    => LET f == SourceFacts
       IN  /\ Len(program) = InstructionRank(f, Len(source))
           /\ \A i \in 1..Len(source) :
                  f[i].instruction
                  => /\ Loaded(f, i).op = f[i].mnemonic
                     /\ Loaded(f, i).operand_1 = parse_operand_1(f[i].tokens, labels)
                     /\ Loaded(f, i).operand_2 = parse_operand_2(f[i].tokens)

\* a program was loaded from a source where a line with an unrecognized
\* mnemonic stands between two lines with a recognized one
C13_Witness ==
    /\ phase = "loaded"
    /\ Len(program) >= 2
    /\ LET f == SourceFacts
       IN  \E i \in 1..Len(source) :
               /\ f[i].code
               /\ ~f[i].instruction
               /\ InstructionRank(f, i) >= 1
               /\ InstructionRank(f, Len(source)) > InstructionRank(f, i)

\* the number of lines before line i that the first pass counts
CountedBefore(f, i) == Cardinality({j \in 1..(i - 1) : f[j].code})

\* line j is the defining (last) label line of its name
Defines(f, j) ==
    /\ f[j].label
    /\ \A k \in (j + 1)..Len(f) : f[k].label => f[k].name # f[j].name

\* line i is a jump whose first operand token is the name that label line j defines
JumpToLabel(f, i, j) ==
    /\ f[i].instruction
    /\ f[i].mnemonic \in Jumps
    /\ Len(f[i].tokens) >= 2
    /\ Defines(f, j)
    /\ f[i].tokens[2] = f[j].name

(* C14: a jump whose first operand is a label name is loaded with the      *)
(* index of that label, the same whether the label line stands before the  *)
(* jump (backward reference) or after it (forward reference): two jumps to *)
(* one label on either side of its line are loaded with equal operands.    *)
C14_ForwardEqualsBackward ==
    phase = "loaded"
    => LET f == SourceFacts
       IN  \A i \in 1..Len(source), j \in 1..Len(source) :
               JumpToLabel(f, i, j)
               => /\ Loaded(f, i).operand_1 = Some(CountedBefore(f, j))
                  /\ \A k \in 1..Len(source) :
                         JumpToLabel(f, k, j)
                         => Loaded(f, k).operand_1 = Loaded(f, i).operand_1

\* a loaded source with a jump before a label line and a jump after it, both
\* naming that label
C14_Witness ==
    /\ phase = "loaded"
    /\ LET f == SourceFacts
       IN  \E i \in 1..Len(source), j \in 1..Len(source), k \in 1..Len(source) :
               /\ i < j
               /\ j < k
               /\ JumpToLabel(f, i, j)
               /\ JumpToLabel(f, k, j)
               /\ Loaded(f, i).operand_1 = Some(CountedBefore(f, j))

\* token n of line i as an integer literal only, or None if the line has no such token
Literal(f, i, n) == IF Len(f[i].tokens) >= n THEN parse_i32(f[i].tokens[n]) ELSE None

\* token n of line i is the name of a label
NamesLabel(f, i, n) == Len(f[i].tokens) >= n /\ f[i].tokens[n] \in DOMAIN labels

(* C15 as stated: the loader substitutes a label's index for a label-name  *)
(* token only when the token is the first operand of a control-flow        *)
(* instruction (JMP, JEZ, JNZ, JGZ, JLZ); a label-name token in the second *)
(* operand slot, or in the first operand slot of any other opcode, is not  *)
(* resolved to the label index.                                            *)
C15_LabelsOnlyInJumps ==
    phase = "loaded"
    => LET f == SourceFacts
       IN  \A i \in 1..Len(source) :
               f[i].instruction
               => /\ Loaded(f, i).operand_1 =
                         IF f[i].mnemonic \in Jumps /\ NamesLabel(f, i, 2)
                             THEN Some(labels[f[i].tokens[2]])
                             ELSE Literal(f, i, 2)
                  /\ Loaded(f, i).operand_2 = Literal(f, i, 3)

(* C15 amended: the loader substitutes a label's index for a label-name    *)
(* token exactly when the token is the first operand of an instruction, of *)
(* any opcode; a label-name token in the second operand slot is never      *)
(* resolved to the label index.                                            *)
C15_LabelsInFirstOperand ==
    phase = "loaded"
    => LET f == SourceFacts
       IN  \A i \in 1..Len(source) :
               f[i].instruction
               => /\ Loaded(f, i).operand_1 =
                         IF NamesLabel(f, i, 2)
                             THEN Some(labels[f[i].tokens[2]])
                             ELSE Literal(f, i, 2)
                  /\ Loaded(f, i).operand_2 = Literal(f, i, 3)

\* a loaded source where a label name is the first operand of an instruction
\* that is no jump and was resolved, and where a label name in the second
\* slot was not
C15_Witness ==
    /\ phase = "loaded"
    /\ LET f == SourceFacts
       IN  /\ \E i \in 1..Len(source) :
                  /\ f[i].instruction
                  /\ f[i].mnemonic \notin Jumps
                  /\ NamesLabel(f, i, 2)
                  /\ Loaded(f, i).operand_1 = Some(labels[f[i].tokens[2]])
                  /\ Loaded(f, i).operand_1 # Literal(f, i, 2)
           /\ \E k \in 1..Len(source) :
                  /\ f[k].instruction
                  /\ NamesLabel(f, k, 3)
                  /\ Loaded(f, k).operand_2 = None

\* the Program is PSH a, PSH b, ADD, PPT
IsAddProgram ==
    /\ HasLoaded
    /\ Len(program) = 4
    /\ program[1].op = "PSH" /\ is_some(program[1].operand_1)
    /\ program[2].op = "PSH" /\ is_some(program[2].operand_1)
    /\ program[3] = [op |-> "ADD", operand_1 |-> None, operand_2 |-> None]
    /\ program[4] = [op |-> "PPT", operand_1 |-> None, operand_2 |-> None]
AddendA == program[1].operand_1[1]
AddendB == program[2].operand_1[1]

\* AddendA + AddendB is a signed 32-bit integer
SumInRange ==
    IF AddendB >= 0 THEN AddendA <= I32_MAX - AddendB
    ELSE AddendA >= I32_MIN - AddendB

\* AddendA + AddendB reduced modulo 2^32 into the signed 32-bit range, for a
\* sum that is out of range
WrappedSum ==
    IF AddendB >= 0 THEN (AddendA + I32_MIN) + (AddendB + I32_MIN)
    ELSE (AddendA - I32_MIN) + (AddendB - I32_MIN)

\* the output is the one line that prints v
PrintedOnce(v) == output = <<[kind |-> "line", text |-> to_string(v)]>>

(* C16 as stated: for all signed 32-bit a and b, running PSH a, PSH b,     *)
(* ADD, PPT from the initial state prints exactly one value, equal to      *)
(* a + b, and ends with an empty stack.  (What is printed is a signed      *)
(* 32-bit integer, so it equals a + b only if a + b is one.)               *)
C16_AddPrintsSum ==
    IsAddProgram
    => /\ phase # "panicked"
       /\ phase = "done" => /\ SumInRange
                            /\ PrintedOnce(AddendA + AddendB)
                            /\ stack = <<>>

(* C16 amended: for all signed 32-bit a and b whose sum is a signed 32-bit *)
(* integer the run prints exactly one value, equal to a + b, and ends with *)
(* an empty stack; when the sum is out of range the run either panics at   *)
(* ADD having printed nothing (overflow checks on) or prints a + b reduced *)
(* modulo 2^32 and ends with an empty stack (overflow checks off).         *)
C16_AddPrintsSumInRange ==
    IsAddProgram
    => /\ phase = "panicked" => /\ ~SumInRange
                                /\ overflow_checks
                                /\ Last.op = "ADD"
                                /\ output = <<>>
       /\ phase = "done" => /\ SumInRange \/ ~overflow_checks
                            /\ PrintedOnce(IF SumInRange THEN AddendA + AddendB
                                           ELSE WrappedSum)
                            /\ stack = <<>>
       /\ Len(trace) <= 4
       /\ \A k \in 1..Len(trace) : trace[k].pc = k - 1

\* the run of PSH a, PSH b, ADD, PPT is over for the two extreme values, whose
\* sum is in range, and their sum was printed
C16_Witness ==
    /\ IsAddProgram
    /\ phase = "done"
    /\ AddendA = I32_MIN
    /\ AddendB = I32_MAX
    /\ PrintedOnce(-1)
    /\ stack = <<>>

\* the memory m with the value v at the address a
Stored(m, a, v) == [k \in DOMAIN m \cup {a} |-> IF k = a THEN v ELSE m[k]]

\* the address a is in [0, MAX_MEMORY_SIZE)
InRange(a) == 0 <= a /\ a < MAX_MEMORY_SIZE

(* C17: in every reachable state every memory key lies in                  *)
(* [0, MAX_MEMORY_SIZE).  STR on a non-empty stack with an in-range        *)
(* address pops the top and writes it at the address; with an out-of-range *)
(* address it pops the top and leaves memory unchanged; in both cases the  *)
(* next pc is pc + 1.                                                      *)
C17_MemoryKeysInRange ==
    /\ \A k \in DOMAIN memory : InRange(k)
    /\ (/\ Executed
        /\ Last.op = "STR"
        /\ Len(Last.stack) > 0
        /\ is_some(Last.operand_1))
       => /\ FellThrough
          /\ running
          /\ stack = DropOne(Last.stack)
          /\ registers = Last.registers
          /\ memory = IF InRange(Last.operand_1[1])
                          THEN Stored(Last.memory, Last.operand_1[1], TopOf(Last.stack))
                          ELSE Last.memory

\* STR has written the popped value at the highest address
C17_Witness ==
    /\ Executed
    /\ Last.op = "STR"
    /\ Len(Last.stack) > 0
    /\ Last.operand_1 = Some(MAX_MEMORY_SIZE - 1)
    /\ DOMAIN memory = {MAX_MEMORY_SIZE - 1}
    /\ memory[MAX_MEMORY_SIZE - 1] = TopOf(Last.stack)
    /\ stack = DropOne(Last.stack)

\* the step t is a LOA of an address that holds a value
LoadsValue(t) ==
    /\ is_some(t.operand_1)
    /\ t.operand_1[1] >= 0
    /\ t.operand_1[1] \in DOMAIN t.memory

(* C18: LOA a never modifies memory: if the address holds a value it       *)
(* pushes that value, otherwise (address unset, negative or absent) the    *)
(* stack, memory and registers are unchanged; the next pc is pc + 1.       *)
(* Consequently STR a followed by LOA a, run with a non-empty stack and an *)
(* in-range a, leaves the stack as it was before the STR.                  *)
C18_LoadLeavesMemory ==
    /\ (Executed /\ Last.op = "LOA")
       => /\ FellThrough
          /\ running
          /\ memory = Last.memory
          /\ registers = Last.registers
          /\ stack = IF LoadsValue(Last)
                         THEN Append(Last.stack, Last.memory[Last.operand_1[1]])
                         ELSE Last.stack
    /\ (/\ ExecutedTwo
        /\ Prev.op = "STR"
        /\ Last.op = "LOA"
        /\ Last.pc = Prev.pc + 1
        /\ Len(Prev.stack) > 0
        /\ is_some(Prev.operand_1)
        /\ InRange(Prev.operand_1[1])
        /\ Last.operand_1 = Prev.operand_1)
       => stack = Prev.stack

\* STR 5 then LOA 5 were run on a stack of two entries, which is back as it was
C18_Witness ==
    /\ ExecutedTwo
    /\ Prev.op = "STR"
    /\ Last.op = "LOA"
    /\ Prev.operand_1 = Some(5)
    /\ Last.operand_1 = Some(5)
    /\ Len(Prev.stack) = 2
    /\ Len(Last.stack) = 1
    /\ stack = Prev.stack
    /\ memory = Last.memory

\* the step t clears what is already empty
ClearsEmpty(t) ==
    \/ t.op = "SCL" /\ t.stack = <<>>
    \/ t.op = "MCL" /\ DOMAIN t.memory = {}

(* C19: SCL on an empty stack, and MCL on an empty memory, leave the       *)
(* stack, memory and registers unchanged and running true, and the next pc *)
(* is pc + 1, as after NOP.                                                *)
C19_ClearOfEmptyIsNoOp ==
    (Executed /\ ClearsEmpty(Last))
    => /\ FellThrough
       /\ running
       /\ stack = Last.stack
       /\ memory = Last.memory
       /\ registers = Last.registers

\* SCL ran on the empty stack and, next, MCL on the empty memory
C19_Witness ==
    /\ ExecutedTwo
    /\ Prev.op = "SCL"
    /\ Prev.stack = <<>>
    /\ Last.op = "MCL"
    /\ Last.pc = Prev.pc + 1
    /\ Last.stack = <<>>
    /\ DOMAIN Last.memory = {}
    /\ pc = Last.pc + 1

\* the step t is a stack-mode binary instruction or SWP
TakesTwo(t) == (t.op \in BinaryMnemonics /\ StackMode(t)) \/ t.op = "SWP"

(* C20: every stack-mode binary instruction (ADD, SUB, MUL, DIV, MOD, EQU, *)
(* NEQ, GTH, LTH, GTE, LTE) and SWP, executed on a stack of fewer than two *)
(* entries, leaves the stack exactly as it was, and the next pc is pc + 1. *)
C20_UnderflowKeepsStack ==
    (Executed /\ TakesTwo(Last) /\ Len(Last.stack) < 2)
    => /\ FellThrough
       /\ running
       /\ stack = Last.stack
       /\ memory = Last.memory
       /\ registers = Last.registers

\* LTE ran on a stack of one entry, which is still there
C20_Witness ==
    /\ Executed
    /\ Last.op = "LTE"
    /\ StackMode(Last)
    /\ Len(Last.stack) = 1
    /\ stack = Last.stack
    /\ pc = Last.pc + 1

\* the contents of the two registers that the register-mode step t names
LeftRegister(t) == t.registers[unwrap_or(t.operand_1, 0)]
RightRegister(t) == t.registers[t.operand_2[1]]

\* the result of the register-mode arithmetic step t is a signed 32-bit integer,
\* if it has one
ResultInRange(t) ==
    RegisterMode(t)
    => CASE t.op = "ADD" -> ~add_i32(LeftRegister(t), RightRegister(t)).ovf
         [] t.op = "SUB" -> ~sub_i32(LeftRegister(t), RightRegister(t)).ovf
         [] t.op = "MUL" -> ~mul_i32(LeftRegister(t), RightRegister(t)).ovf
         [] OTHER -> ~(LeftRegister(t) = I32_MIN /\ RightRegister(t) = -1)

(* C21: register-mode ADD, SUB, MUL, DIV and MOD (second operand present)  *)
(* never modify any register: with both operands in [0, 8) they push the   *)
(* operation applied to the contents of the two registers, the first       *)
(* operand's register as the left operand; with an operand outside [0, 8)  *)
(* they push nothing; in both cases the next pc is pc + 1.  (Stated for    *)
(* the steps whose result, where there is one, is a signed 32-bit integer.) *)
C21_RegisterArithmeticFrame ==
    (/\ Executed
     /\ Last.op \in {"ADD", "SUB", "MUL", "DIV", "MOD"}
     /\ Last.operand_2 # None
     /\ ResultInRange(Last))
    => /\ FellThrough
       /\ running
       /\ registers = Last.registers
       /\ memory = Last.memory
       /\ ~RegisterMode(Last) => stack = Last.stack
       /\ (RegisterMode(Last) /\ ~(Last.op \in {"DIV", "MOD"} /\ RightRegister(Last) = 0))
          => stack = Append(Last.stack,
                            CASE Last.op = "ADD" -> LeftRegister(Last) + RightRegister(Last)
                              [] Last.op = "SUB" -> LeftRegister(Last) - RightRegister(Last)
                              [] Last.op = "MUL" -> LeftRegister(Last) * RightRegister(Last)
                              [] Last.op = "DIV" -> div_i32(LeftRegister(Last), RightRegister(Last))
                              [] Last.op = "MOD" -> rem_i32(LeftRegister(Last), RightRegister(Last)))

\* the line that prints the value v, and the output once the step t has
\* printed its stack top
Line(v) == [kind |-> "line", text |-> to_string(v)]
PrintedTop(t) == Append(t.output, Line(TopOf(t.stack)))

\* the source of the spec's end-to-end example
AddMulSource == <<"PSH 10", "PSH 20", "ADD", "PRT", "PSH 2", "MUL", "PRT", "HLT">>

(* C22: PRT outputs the stack top and leaves the stack unchanged, while    *)
(* PPT outputs the stack top and removes it; hence running PSH 10, PSH 20, *)
(* ADD, PRT, PSH 2, MUL, PRT, HLT outputs 30 then 60 and stops by          *)
(* executing HLT with running = false.                                     *)
C22_PrintPeeksPopPrintPops ==
    /\ (Executed /\ Last.op = "PRT" /\ Len(Last.stack) > 0)
       => /\ FellThrough
          /\ output = PrintedTop(Last)
          /\ stack = Last.stack
    /\ (Executed /\ Last.op = "PPT" /\ Len(Last.stack) > 0)
       => /\ FellThrough
          /\ output = PrintedTop(Last)
          /\ stack = DropOne(Last.stack)
    /\ source = AddMulSource
       => /\ phase # "panicked"
          /\ \A k \in 1..Len(trace) : trace[k].pc = k - 1
          /\ (Len(trace) = 8 \/ phase = "done")
                 => /\ Len(trace) = 8
                    /\ Last.op = "HLT"
                    /\ ~running
                    /\ output = <<Line(30), Line(60)>>

\* the run of the example is over, by its HLT, and has printed 30 and 60
C22_Witness ==
    /\ source = AddMulSource
    /\ phase = "done"
    /\ Last.op = "HLT"
    /\ ~running
    /\ output = <<[kind |-> "line", text |-> "30"], [kind |-> "line", text |-> "60"]>>

(* C23: the stack-mode ordering comparisons on a stack [.., s, t] (t is    *)
(* the top) remove s and t and push: GTH 1 iff s > t, LTH 1 iff s < t,     *)
(* GTE 1 iff s >= t, LTE 1 iff s <= t, and 0 otherwise.                    *)
C23_OrderingComparesSecondWithTop ==
    (/\ Executed
     /\ Last.op \in {"GTH", "LTH", "GTE", "LTE"}
     /\ StackMode(Last)
     /\ Len(Last.stack) >= 2)
    => LET s == SecondOf(Last.stack)
           t == TopOf(Last.stack)
       IN  /\ FellThrough
           /\ running
           /\ stack = Append(DropTwo(Last.stack),
                             CASE Last.op = "GTH" -> IF s > t THEN 1 ELSE 0
                               [] Last.op = "LTH" -> IF s < t THEN 1 ELSE 0
                               [] Last.op = "GTE" -> IF s >= t THEN 1 ELSE 0
                               [] Last.op = "LTE" -> IF s <= t THEN 1 ELSE 0)
           /\ memory = Last.memory
           /\ registers = Last.registers

\* LTE ran on a stack [-7, 2] and pushed 1 for -7 <= 2
C23_Witness ==
    /\ Executed
    /\ Last.op = "LTE"
    /\ StackMode(Last)
    /\ Last.stack = <<-7, 2>>
    /\ stack = <<1>>

(* C24: when the test of JEZ, JNZ, JGZ or JLZ holds on the stack top and   *)
(* the instruction's load-resolved operand t satisfies 0 <= t < len, the   *)
(* next pc is t, the index a JMP with operand t goes to, whatever the      *)
(* label table holds (labels named by a decimal numeral included).         *)
C24_ConditionalTargetIsOperand ==
    (/\ Executed
     /\ Last.op \in {"JEZ", "JNZ", "JGZ", "JLZ"}
     /\ Len(Last.stack) > 0
     /\ JumpTest(Last.op, TopOf(Last.stack))
     /\ is_some(Last.operand_1)
     /\ 0 <= Last.operand_1[1]
     /\ Last.operand_1[1] < Len(program))
    => /\ ~Last.panic
       /\ running
       /\ pc = Last.operand_1[1]

\* the step t names a register outside [0, 8) in an operand it uses as an index
NamesRegisterOutOfRange(t) ==
    \/ /\ t.op \in {"INC", "DEC", "SET", "GET"}
       /\ is_some(t.operand_1)
       /\ t.operand_1[1] \notin 0..(REGISTER_AMOUNT - 1)
    \/ /\ t.op \in {"MOV", "COP"}
       /\ is_some(t.operand_2)
       /\ \/ unwrap_or(t.operand_1, 0) \notin 0..(REGISTER_AMOUNT - 1)
          \/ t.operand_2[1] \notin 0..(REGISTER_AMOUNT - 1)

\* the step t is INC r or DEC r with r in [0, 8) and a result within i32
CountsRegister(t) ==
    /\ t.op \in {"INC", "DEC"}
    /\ is_some(t.operand_1)
    /\ t.operand_1[1] \in 0..(REGISTER_AMOUNT - 1)
    /\ t.registers[t.operand_1[1]] # (IF t.op = "INC" THEN I32_MAX ELSE I32_MIN)

(* C25: every register-file read or write uses an index in [0, 8): INC r,  *)
(* DEC r, SET r, GET r, MOV s d and COP s d with an operand outside [0, 8) *)
(* do not access the register file out of range and do not stop the run;   *)
(* with in-range operands INC r and DEC r change only register r, by +1    *)
(* and -1, and leave the stack unchanged.                                  *)
C25_RegisterIndexInRange ==
    /\ (Executed /\ NamesRegisterOutOfRange(Last))
       => /\ FellThrough
          /\ running
          /\ registers = Last.registers
    /\ (Executed /\ CountsRegister(Last))
       => /\ FellThrough
          /\ stack = Last.stack
          /\ registers = [Last.registers EXCEPT ![Last.operand_1[1]] =
                              IF Last.op = "INC" THEN @ + 1 ELSE @ - 1]

(* C26: in every reachable state of a run on a loaded program,             *)
(* 0 <= pc <= len, and every instruction fetch happens at an index in      *)
(* [0, len), whatever the source text (lines with unrecognized mnemonics   *)
(* and numerically named labels included).                                 *)
C26_PcWithinProgram ==
    /\ 0 <= pc
    /\ pc <= Len(program)
    /\ \A k \in 1..Len(trace) : 0 <= trace[k].pc /\ trace[k].pc < Len(program)

\* the loaded Program holds no jump and no INP, and is short enough to be run
\* to its end within MaxSteps steps
JumpFree ==
    /\ HasLoaded
    /\ Len(program) <= MaxSteps
    /\ \A k \in 1..Len(program) : program[k].op \notin Jumps \cup {"INP"}

(* C27: every instruction other than JMP, JEZ, JNZ, JGZ and JLZ yields the *)
(* next pc = pc + 1, so a run of a program with no jump and no INP         *)
(* terminates after executing at most len instructions (fewer if a HLT is  *)
(* reached), each instruction at most once: the instructions executed are  *)
(* those at pc 0, 1, 2, .. in this order, none after a HLT, and as long as *)
(* the run has not stopped its next step can be taken.                     *)
C27_JumpFreeRunTerminates ==
    /\ (Executed /\ Last.op \notin Jumps /\ ~Last.panic) => pc = Last.pc + 1
    /\ JumpFree
       => /\ Len(trace) <= Len(program)
          /\ \A k \in 1..Len(trace) : trace[k].pc = k - 1
          /\ \A k \in 1..(Len(trace) - 1) : trace[k].op # "HLT" /\ ~trace[k].panic
          /\ ~Stopped => ENABLED Next

\* run() has returned from a program of five instructions or more with no jump,
\* no INP and no HLT, having executed each of them once
C27_Witness ==
    /\ JumpFree
    /\ phase = "done"
    /\ Len(program) >= 5
    /\ Len(trace) = Len(program)
    /\ \A k \in 1..Len(trace) : trace[k].pc = k - 1 /\ trace[k].op # "HLT"

====
